---- MODULE Spec2Model ----
(***************************************************************************)
(* Model of the cachew cache substrate: the in-memory backend              *)
(* (internal/cache/memory.go), its writers and namespace views, and the    *)
(* fetch-through helper (internal/cache/http.go).                          *)
(*                                                                         *)
(* Bodies are sequences of blocks; every block stands for BlockSize bytes  *)
(* handed to one Write call.  A Go string is a tuple of tokens, so that    *)
(* the formatted creation time <<"GMT", t>> and the empty string <<>> are  *)
(* values of the same kind.  An http.Header is a function from header      *)
(* names to value lists.                                                   *)
(*                                                                         *)
(* The second half models the git clone manager                            *)
(* (internal/gitclone/manager.go) and the read path of the git strategy    *)
(* (internal/strategy/git/git.go, proxy.go): goroutines are the processes  *)
(* of procs, and every step is one critical section, one subprocess or one *)
(* channel operation of the code.                                          *)
(***************************************************************************)
EXTENDS Integers, Sequences, FiniteSets, TLC

VARIABLES
    now,          \* time.Now(), in clock ticks
    caches,       \* the Memory structs: caches[1] is NewMemory's, the rest are Namespace views
    entries,      \* the shared map namespace -> key -> memoryEntry
    currentSize,  \* the shared atomic counter Memory.currentSize
    writers,      \* the memoryWriter objects handed out by Create
    fetch,        \* the cache.Fetch call in flight and its copying goroutine
    panicked,     \* a Go runtime panic has ended the process
    clones,       \* Manager.clones: upstream URL -> index into repos, 0 when absent
    repos,        \* the Repository objects ever constructed
    disk,         \* the upstream URLs whose mirror directory holds a HEAD file
    procs,        \* the goroutines calling into the manager and the strategy
    jobs,         \* the scheduler queue of the repository: the jobs submitted, not yet run
    periodic,     \* the periodic jobs registered with the scheduler
    strategySpools, \* Strategy.spools: upstream URL -> index into repoSpools, 0 when absent
    repoSpools,   \* the RepoSpools tables ever constructed
    spools,       \* the ResponseSpool objects ever constructed
    upstream,     \* the requests made to the upstream server, in order
    pathValue,    \* the path of the request ExtractRepoPath was last called with
    repoPath,     \* what that call returned
    metaDB,       \* the diskMetaDB: the bbolt buckets and the namespacesCache
    diskStore     \* the disk cache: its files, the size it reports and its sweeper

cacheVars == <<caches, entries, currentSize, writers, fetch, panicked>>
managerVars == <<clones, repos, disk, procs>>
strategyVars == <<jobs, periodic, strategySpools, repoSpools, spools, upstream>>
gitVars == <<managerVars, strategyVars>>

diskVars == <<metaDB, diskStore>>
pathVars == <<pathValue, repoPath>>

vars == <<now, cacheVars, gitVars, diskVars, pathVars>>

----------------------------------------------------------------------------
(* Bounds and input domains *)

MaxTime == 3
MaxBlocks == 2
MaxCaches == 2

Keys == {"k1", "k2"}
Namespaces == {"", "git"}
WriterIds == {1, 2}
Blocks == {"a", "b"}

\* MemoryConfig of the modelled instance
LimitMB == 1
MaxTTL == 2

\* every Write call of the model hands over one block of this many bytes
BlockSize == 512 * 1024

EmptyString == <<>>
TextPlain == <<"text/plain">>
Preset == <<"Mon, 02 Jan 2006 15:04:05 GMT">>

NilErr == "nil"
ErrNotExist == "os.ErrNotExist"
ErrCancelled == "create operation cancelled"
ErrWriterClosed == "writer closed"
ErrPanic == "panic: assignment to entry in nil map"

----------------------------------------------------------------------------
(* net/http and time helpers *)

\* now.UTC().Format(http.TimeFormat)
FormatHTTPTime(t) == <<"GMT", t>>

EmptyMap == [x \in {} |-> 0]

\* http.Header.Get: the first value of the list, "" when there is none
HeaderGet(h, name) ==
    IF name \in DOMAIN h /\ Len(h[name]) > 0 THEN h[name][1] ELSE EmptyString

\* http.Header.Set: the list is replaced by the single value
HeaderSet(h, name, value) ==
    [n \in DOMAIN h \cup {name} |-> IF n = name THEN <<value>> ELSE h[n]]

ContentType == [n \in {"Content-Type"} |-> <<TextPlain>>]

\* time.Time.After
After(t, u) == t > u

\* len(e.data) in bytes
Size(data) == Len(data) * BlockSize

MapDelete(m, k) == [x \in DOMAIN m \ {k} |-> m[x]]

MapPut(m, k, v) == [x \in DOMAIN m \cup {k} |-> IF x = k THEN v ELSE m[x]]

\* m.entries as seen through the struct caches[c]: a nil map reads as empty
EntriesOf(c) == IF caches[c].entries = "nil" THEN EmptyMap ELSE entries

----------------------------------------------------------------------------
(* Reads: Memory.Stat, Memory.Open, Memory.Stats, Memory.ListNamespaces *)

NotFound == [err |-> ErrNotExist, data |-> <<>>, headers |-> EmptyMap]

LookupIgnoringExpiry(c, key) ==
    LET m == EntriesOf(c)
        ns == caches[c].namespace
    IN  IF ns \notin DOMAIN m THEN NotFound
        ELSE IF key \notin DOMAIN m[ns] THEN NotFound
        ELSE [err |-> NilErr, data |-> m[ns][key].data, headers |-> m[ns][key].headers]

\* the three checks Stat and Open share: namespace map, key, expiry
Lookup(c, key) ==
    LET m == EntriesOf(c)
        ns == caches[c].namespace
    IN  IF ns \notin DOMAIN m THEN NotFound
        ELSE IF key \notin DOMAIN m[ns] THEN NotFound
        ELSE IF After(now, m[ns][key].expiresAt) THEN NotFound
        ELSE [err |-> NilErr, data |-> m[ns][key].data, headers |-> m[ns][key].headers]

StatResult(c, key) == [err |-> Lookup(c, key).err, headers |-> Lookup(c, key).headers]

OpenResult(c, key) == Lookup(c, key)

RECURSIVE SumSizes(_, _)
SumSizes(m, slots) ==
    IF slots = {} THEN 0
    ELSE LET s == CHOOSE x \in slots : TRUE
         IN  Size(m[s[1]][s[2]].data) + SumSizes(m, slots \ {s})

Slots(m) == {s \in Namespaces \X Keys : s[1] \in DOMAIN m /\ s[2] \in DOMAIN m[s[1]]}

\* the bytes actually held: the sum of len(data) over every stored entry
StoredBytes == SumSizes(entries, Slots(entries))

StatsResult(c) ==
    [Objects |-> Cardinality(Slots(EntriesOf(c))),
     Size |-> currentSize,
     Capacity |-> LimitMB * 1024 * 1024]

ListNamespacesResult(c) == {ns \in DOMAIN EntriesOf(c) : ns # ""}

----------------------------------------------------------------------------
(* Memory.evictOldest *)

EntryInfos(m) ==
    {[namespace |-> s[1], key |-> s[2],
      size |-> Size(m[s[1]][s[2]].data),
      expiresAt |-> m[s[1]][s[2]].expiresAt] : s \in Slots(m)}

\* the orders in which ranging over the two-level map can yield its entries
IterationOrders(S) ==
    {p \in [1..Cardinality(S) -> S] : \A i, j \in 1..Cardinality(S) : i # j => p[i] # p[j]}

Swap(s, i, j) == [s EXCEPT ![i] = s[j], ![j] = s[i]]

RECURSIVE SortInner(_, _, _)
SortInner(s, i, j) ==
    IF j > Len(s) THEN s
    ELSE SortInner(IF After(s[i].expiresAt, s[j].expiresAt) THEN Swap(s, i, j) ELSE s, i, j + 1)

RECURSIVE SortOuter(_, _)
SortOuter(s, i) ==
    IF i > Len(s) THEN s ELSE SortOuter(SortInner(s, i, i + 1), i + 1)

SortByExpiryLeftUnsorted(s) == s

\* the exchange sort of evictOldest: earliest expiry first
SortByExpiry(s) == SortOuter(s, 1)

DeleteEntryOfEveryNamespace(m, ns, key) == [n \in DOMAIN m |-> MapDelete(m[n], key)]

DeleteEntry(m, ns, key) == [m EXCEPT ![ns] = MapDelete(m[ns], key)]

RECURSIVE EvictLoop(_, _, _, _, _)
EvictLoop(st, order, i, freedSpace, neededSpace) ==
    IF i > Len(order) \/ freedSpace >= neededSpace THEN st
    ELSE EvictLoop([entries |-> DeleteEntry(st.entries, order[i].namespace, order[i].key),
                    currentSize |-> st.currentSize - order[i].size,
                    evicted |-> st.evicted \cup {order[i]}],
                   order, i + 1, freedSpace + order[i].size, neededSpace)

\* every result evictOldest can produce: one per iteration order of the map
evictOldest(m, size, neededSpace) ==
    {EvictLoop([entries |-> m, currentSize |-> size, evicted |-> {}],
               SortByExpiry(p), 1, 0, neededSpace) : p \in IterationOrders(EntryInfos(m))}

----------------------------------------------------------------------------
(* The disk cache: its metadata database (internal/cache/disk_metadb.go) and the
   store with its sweeper *)

\* the bytes of a cache.Key (32 in the program)
KeyLen == 2

\* the bytes the keys of the model are made of, and their hexadecimal text
KeyBytes == {"a", "/"}
HexByte(b) == IF b = "a" THEN <<"6", "1">> ELSE <<"2", "f">>

\* Key.String(): two hexadecimal characters per byte
RECURSIVE HexKey(_)
HexKey(key) == IF key = <<>> THEN <<>> ELSE HexByte(Head(key)) \o HexKey(Tail(key))

\* Key.UnmarshalText: the key of a hexadecimal text, an error when it is none
UnmarshalText(text) ==
    LET keys == {k \in [1..KeyLen -> KeyBytes] : HexKey(k) = text}
    IN  IF keys = {} THEN [err |-> TRUE, key |-> <<>>]
        ELSE [err |-> FALSE, key |-> CHOOSE k \in keys : TRUE]

\* bytes.Cut(k, "/"): what stands before and after the first "/" of k
Cut(k) ==
    LET at == {i \in 1..Len(k) : k[i] = "/"}
    IN  IF at = {} THEN [before |-> k, after |-> <<>>, found |-> FALSE]
        ELSE LET i == CHOOSE x \in at : \A y \in at : x <= y
             IN  [before |-> SubSeq(k, 1, i - 1), after |-> SubSeq(k, i + 1, Len(k)),
                  found |-> TRUE]

\* the database key of an entry: the raw key in the empty namespace, else
\* "namespace/hexkey"
compositeKey(namespace, key) ==
    IF namespace = <<>> THEN key ELSE namespace \o <<"/">> \o HexKey(key)

\* newDiskMetaDB on a database file with these buckets: the namespace cache is
\* filled from the keys of the ttl bucket
newDiskMetaDB(ttl, headers) ==
    [ttl |-> ttl, headers |-> headers,
     namespacesCache |-> {Cut(k).before :
                             k \in {x \in DOMAIN ttl : Cut(x).found /\ Len(Cut(x).before) > 0}}]

\* diskMetaDB.set
set(db, key, namespace, expiresAt, headers) ==
    [ttl |-> MapPut(db.ttl, compositeKey(namespace, key), expiresAt),
     headers |-> MapPut(db.headers, compositeKey(namespace, key), headers),
     namespacesCache |-> IF namespace # <<>> THEN db.namespacesCache \cup {namespace}
                         ELSE db.namespacesCache]

\* diskMetaDB.getTTL
getTTL(db, namespace, key) ==
    IF compositeKey(namespace, key) \in DOMAIN db.ttl
    THEN [err |-> NilErr, expiresAt |-> db.ttl[compositeKey(namespace, key)]]
    ELSE [err |-> ErrNotExist, expiresAt |-> 0]

\* diskMetaDB.delete
delete(db, namespace, key) ==
    [db EXCEPT !.ttl = MapDelete(@, compositeKey(namespace, key)),
               !.headers = MapDelete(@, compositeKey(namespace, key))]

\* diskMetaDB.deleteAll: ttl and headers of every entry, in one transaction
deleteAll(db, evicted) ==
    LET dbKeys == {compositeKey(e.namespace, e.key) : e \in evicted}
    IN  [db EXCEPT !.ttl = [k \in DOMAIN db.ttl \ dbKeys |-> db.ttl[k]],
                   !.headers = [k \in DOMAIN db.headers \ dbKeys |-> db.headers[k]]]

\* diskMetaDB.walk, the callback of ForEach on one key of the ttl bucket: the entry
\* fn is called with, or none for a key that is skipped
walkKey(db, k) ==
    LET cut == Cut(k)
    IN  IF cut.found
        THEN IF Len(cut.after) # 2 * KeyLen \/ UnmarshalText(cut.after).err THEN {}
             ELSE {[key |-> UnmarshalText(cut.after).key, namespace |-> cut.before,
                    expiresAt |-> db.ttl[k]]}
        ELSE IF Len(k) = KeyLen
        THEN {[key |-> k, namespace |-> <<>>, expiresAt |-> db.ttl[k]]}
        ELSE {}

\* diskMetaDB.walk: the entries fn is called with
walk(db) == UNION {walkKey(db, k) : k \in DOMAIN db.ttl}

\* diskMetaDB.listNamespaces
listNamespaces(db) == db.namespacesCache

\* DiskConfig.EvictInterval, in clock ticks
EvictInterval == 2

\* the bytes of the files S
RECURSIVE SumOf(_, _)
SumOf(f, S) ==
    IF S = {} THEN 0
    ELSE LET x == CHOOSE y \in S : TRUE IN f[x] + SumOf(f, S \ {x})

\* NewDisk on an empty root directory; the modelled cache has no size limit
InitDisk ==
    /\ metaDB = newDiskMetaDB(EmptyMap, EmptyMap)
    /\ diskStore = [files |-> EmptyMap, size |-> 0, nextSweep |-> EvictInterval]

\* Disk.Create, Write and a successful Close of size bytes: the file is written,
\* the metadata set and the size counted
DiskCreate(namespace, key, ttl, size) ==
    LET f == <<namespace, key>>
        old == IF f \in DOMAIN diskStore.files THEN diskStore.files[f] ELSE 0
    IN  /\ diskStore' = [diskStore EXCEPT !.files = MapPut(@, f, size),
                                          !.size = @ - old + size]
        /\ metaDB' = set(metaDB, key, namespace, now + ttl, EmptyMap)
        /\ UNCHANGED <<now, cacheVars, gitVars, pathVars>>

\* what Disk.Open returns: NotFound for an entry that is absent or has expired
DiskOpenResult(namespace, key) ==
    IF /\ <<namespace, key>> \in DOMAIN diskStore.files
       /\ getTTL(metaDB, namespace, key).err = NilErr
       /\ ~(getTTL(metaDB, namespace, key).expiresAt <= now)
    THEN NilErr ELSE ErrNotExist

\* Disk.Delete
DiskDelete(namespace, key) ==
    LET f == <<namespace, key>>
    IN  /\ f \in DOMAIN diskStore.files
        /\ diskStore' = [diskStore EXCEPT !.files = MapDelete(@, f),
                                          !.size = @ - diskStore.files[f]]
        /\ metaDB' = delete(metaDB, namespace, key)
        /\ UNCHANGED <<now, cacheVars, gitVars, pathVars>>

\* the sweeper, once every EvictInterval: the entries the walk reports as expired
\* are deleted from the metadata, then their files are removed
DiskSweep ==
    LET expired == {[namespace |-> e.namespace, key |-> e.key] :
                       e \in {x \in walk(metaDB) : x.expiresAt <= now}}
        gone == {<<e.namespace, e.key>> : e \in expired} \cap DOMAIN diskStore.files
    IN  /\ now >= diskStore.nextSweep
        /\ metaDB' = deleteAll(metaDB, expired)
        /\ diskStore' = [files |-> [f \in DOMAIN diskStore.files \ gone |->
                                       diskStore.files[f]],
                         size |-> diskStore.size - SumOf(diskStore.files, gone),
                         nextSweep |-> diskStore.nextSweep + EvictInterval]
        /\ UNCHANGED <<now, cacheVars, gitVars, pathVars>>

\* the metadata database is closed and opened again on the same file
MetaReopen ==
    /\ metaDB' = newDiskMetaDB(metaDB.ttl, metaDB.headers)
    /\ UNCHANGED <<now, cacheVars, gitVars, diskStore, pathVars>>

\* Disk.ListNamespaces
DiskListNamespaces == listNamespaces(metaDB)

----------------------------------------------------------------------------
(* Request paths (internal/strategy/git/git.go) *)

\* the suffixes ExtractRepoPath trims
GitSuffixes == <<"/info/refs", "/git-upload-pack", "/git-receive-pack", ".git">>

\* a path is the sequence of its parts: the suffixes and parts that are none
PathParts == {"org/repo"} \cup {GitSuffixes[i] : i \in DOMAIN GitSuffixes}

\* the parts of a path
MaxPathLen == 3

\* strings.HasSuffix
HasSuffix(path, suffix) == path # <<>> /\ path[Len(path)] = suffix

\* strings.TrimSuffix: the suffix is removed once when the path ends with it
TrimSuffix(path, suffix) ==
    IF HasSuffix(path, suffix) THEN SubSeq(path, 1, Len(path) - 1) ELSE path

\* ExtractRepoPath: one TrimSuffix call per suffix, in the order of GitSuffixes
ExtractRepoPath(path) ==
    TrimSuffix(TrimSuffix(TrimSuffix(TrimSuffix(path, GitSuffixes[1]), GitSuffixes[2]),
                          GitSuffixes[3]), GitSuffixes[4])

\* no request has been handled
InitPath == pathValue = <<>> /\ repoPath = <<>>

\* handleRequest calls ExtractRepoPath on the path of a request
ExtractRepoPathCall(path) ==
    /\ pathValue' = path
    /\ repoPath' = ExtractRepoPath(path)
    /\ UNCHANGED <<now, cacheVars, gitVars, diskVars>>

----------------------------------------------------------------------------
(* State after construction *)

\* a writer slot: the fields of memoryWriter, then what Close returned (err) and a
\* record of the Create call and of the blocks Write accepted (arg..., createdAt, written)
NoWriter ==
    [st |-> "none", cache |-> 0, namespace |-> "", key |-> "", buf |-> <<>>,
     expiresAt |-> 0, headers |-> EmptyMap, ctxDone |-> FALSE, err |-> NilErr,
     argHeaders |-> EmptyMap, argTTL |-> 0, createdAt |-> 0, written |-> <<>>]

\* a cache.Fetch call: where it stands, the cache it was given, its cache writer, the
\* blocks read from upstream and delivered to the caller, the http.Response it returned
\* (with the headers and the body of a response made from the cache), and the error
\* its goroutine closed the pipe with
NoFetch == [pc |-> "idle", cache |-> 0, w |-> 0, read |-> 0, sent |-> 0,
            resp |-> "none", headers |-> EmptyMap, body |-> <<>>, pipeErr |-> NilErr]

----------------------------------------------------------------------------
(* The git clone manager: constants and the state after NewManager *)

MaxRepos == 2

URLs == {"u1"}
Procs == {1, 2, 3}

\* Config of the modelled Manager, in clock ticks
RefCheckInterval == 2
FetchInterval == 2

StateEmpty == "empty"
StateCloning == "cloning"
StateReady == "ready"

\* the zero time.Time of a Repository that was never fetched or checked
ZeroTime == -100

ErrGit == "git: exit status 1"
ErrCtx == "context canceled"

\* a goroutine outside any call: pc is its position, repo and url what the call in
\* progress works on, ret and err what its last call returned, ctxDone whether the
\* context of the call is cancelled, nested whether Fetch runs inside
\* EnsureRefsUpToDate, task the caller the call returns to, done the call that returned
\* last.  sawRunning, madeAt and covered record what held when the call began.
\* Of a goroutine that serves a git request: req is the request, saw the state
\* handleRequest read, key its spool key, table and spool the RepoSpools and the
\* ResponseSpool it was given, isWriter what GetOrCreate told it, body what
\* forwardToUpstream has still to copy, sent what was written to the client.  Of a
\* goroutine of the scheduler: job is the job it runs, w the cache writer of its bundle.
\* fetched: a git fetch of the repository has succeeded since the EnsureRefsUpToDate
\* call of the goroutine found that it needs a fetch.
NoProc == [pc |-> "idle", repo |-> 0, url |-> "", ret |-> 0, err |-> NilErr,
           ctxDone |-> FALSE, nested |-> FALSE, task |-> "none", done |-> "",
           sawRunning |-> FALSE, madeAt |-> 0, covered |-> FALSE,
           req |-> <<>>, saw |-> "", key |-> <<>>, table |-> 0, spool |-> 0,
           isWriter |-> FALSE, body |-> <<>>, sent |-> <<>>, job |-> 0,
           w |-> 0, fetched |-> FALSE]

\* &Repository{...} of GetOrCreate and DiscoverExisting; mu is the goroutine holding
\* the write lock (0: none), fetchSem the tokens in the channel, okMade the time at
\* which the last EnsureRefsUpToDate call that checked the refs and returned nil was made
NewRepository(url, state) ==
    [url |-> url, state |-> state, lastFetch |-> ZeroTime, lastRefCheck |-> ZeroTime,
     refCheckValid |-> FALSE, fetchSem |-> 1, mu |-> 0, okMade |-> ZeroTime]

\* NewManager: no clones registered
InitManager ==
    /\ clones = [u \in URLs |-> 0]
    /\ repos = <<>>
    /\ procs = [p \in Procs |-> NoProc]

\* git.New: no spool tables, nothing submitted to the scheduler
InitStrategy ==
    /\ jobs = <<>>
    /\ periodic = <<>>
    /\ strategySpools = [u \in URLs |-> 0]
    /\ repoSpools = <<>>
    /\ spools = <<>>
    /\ upstream = <<>>

\* NewMemory
Init ==
    /\ now = 0
    /\ caches = <<[namespace |-> "", entries |-> "map"]>>
    /\ entries = EmptyMap
    /\ currentSize = 0
    /\ writers = [w \in WriterIds |-> NoWriter]
    /\ fetch = NoFetch
    /\ panicked = FALSE
    /\ InitManager
    /\ InitStrategy
    /\ disk = {}
    /\ InitDisk
    /\ InitPath

CacheIds == 1..Len(caches)

----------------------------------------------------------------------------
(* The clock, contexts, views *)

Tick ==
    /\ ~panicked
    /\ UNCHANGED <<gitVars, diskVars, pathVars>>
    /\ now < MaxTime
    /\ now' = now + 1
    /\ UNCHANGED <<caches, entries, currentSize, writers, fetch, panicked>>

\* the context passed to Create is cancelled by its owner
Cancel(w) ==
    /\ ~panicked
    /\ UNCHANGED <<gitVars, diskVars, pathVars>>
    /\ writers[w].st = "open"
    /\ ~writers[w].ctxDone
    /\ writers' = [writers EXCEPT ![w].ctxDone = TRUE]
    /\ UNCHANGED <<now, caches, entries, currentSize, fetch, panicked>>

\* Memory.Namespace: a copy of the struct with another namespace tag
Namespace(c, name) ==
    /\ ~panicked
    /\ UNCHANGED <<gitVars, diskVars, pathVars>>
    /\ Len(caches) < MaxCaches
    /\ caches' = Append(caches, [namespace |-> name, entries |-> caches[c].entries])
    /\ UNCHANGED <<now, entries, currentSize, writers, fetch, panicked>>

\* Memory.Close: the receiver's map field becomes nil
Close(c) ==
    /\ ~panicked
    /\ UNCHANGED <<gitVars, diskVars, pathVars>>
    /\ caches' = [caches EXCEPT ![c].entries = "nil"]
    /\ UNCHANGED <<now, entries, currentSize, writers, fetch, panicked>>

----------------------------------------------------------------------------
(* Memory.Stat, Memory.Open, Memory.Delete *)

\* Stat and Open take the read lock and change nothing; what they return is
\* StatResult and OpenResult of the state they run in
Stat(c, key) ==
    /\ ~panicked
    /\ StatResult(c, key).err \in {NilErr, ErrNotExist}
    /\ UNCHANGED vars

Open(c, key) ==
    /\ ~panicked
    /\ OpenResult(c, key).err \in {NilErr, ErrNotExist}
    /\ UNCHANGED vars

\* what Delete returns in the state it runs in
DeleteResult(c, key) ==
    LET m == EntriesOf(c)
        ns == caches[c].namespace
    IN  IF ns \in DOMAIN m /\ key \in DOMAIN m[ns] THEN NilErr ELSE ErrNotExist

Delete(c, key) ==
    LET ns == caches[c].namespace
    IN  /\ ~panicked
        /\ IF DeleteResult(c, key) = NilErr
           THEN /\ currentSize' = currentSize - Size(entries[ns][key].data)
                /\ entries' = DeleteEntry(entries, ns, key)
           ELSE UNCHANGED <<entries, currentSize>>
        /\ UNCHANGED <<now, caches, writers, fetch, panicked>>
        /\ UNCHANGED <<gitVars, diskVars, pathVars>>

----------------------------------------------------------------------------
(* Memory.Create and the memoryWriter *)

\* the ttl the writer is built with
EffectiveTTL(ttl) == IF ttl = 0 THEN MaxTTL ELSE ttl

ClonedHeadersDroppingCallers(headers, t) ==
    IF HeaderGet(headers, "Last-Modified") = EmptyString
    THEN HeaderSet(EmptyMap, "Last-Modified", FormatHTTPTime(t))
    ELSE headers

\* the copy of the caller's headers, with Last-Modified filled in when Get finds none
ClonedHeaders(headers, t) ==
    IF HeaderGet(headers, "Last-Modified") = EmptyString
    THEN HeaderSet(headers, "Last-Modified", FormatHTTPTime(t))
    ELSE headers

NewWriter(c, key, headers, ttl) ==
    [st |-> "open", cache |-> c, namespace |-> caches[c].namespace, key |-> key,
     buf |-> <<>>, expiresAt |-> now + EffectiveTTL(ttl),
     headers |-> ClonedHeaders(headers, now), ctxDone |-> FALSE, err |-> NilErr,
     argHeaders |-> headers, argTTL |-> ttl, createdAt |-> now, written |-> <<>>]

\* a slot can take a new writer when it holds none or a closed one (dropped by its owner)
FreeSlot(w) == writers[w].st # "open" /\ fetch.w # w

Create(w, c, key, headers, ttl) ==
    /\ ~panicked
    /\ UNCHANGED <<gitVars, diskVars, pathVars>>
    /\ FreeSlot(w)
    /\ writers' = [writers EXCEPT ![w] = NewWriter(c, key, headers, ttl)]
    /\ UNCHANGED <<now, caches, entries, currentSize, fetch, panicked>>

\* what memoryWriter.Write returns in the state it runs in
WriteResult(w) == IF writers[w].st = "closed" THEN ErrWriterClosed ELSE NilErr

WriterWriteThrough(w, block) ==
    /\ writers[w].st = "open"
    /\ Len(writers[w].buf) < MaxBlocks
    /\ writers' = [writers EXCEPT ![w].buf = Append(@, block), ![w].written = Append(@, block)]
    /\ entries' = MapPut(entries, writers[w].namespace,
                         MapPut(IF writers[w].namespace \in DOMAIN entries
                                THEN entries[writers[w].namespace] ELSE EmptyMap,
                                writers[w].key,
                                [data |-> Append(writers[w].buf, block),
                                 expiresAt |-> writers[w].expiresAt,
                                 headers |-> writers[w].headers]))
    /\ UNCHANGED <<now, caches, currentSize, panicked>>

WriterWrite(w, block) ==
    /\ writers[w].st # "none"
    /\ IF WriteResult(w) = NilErr
       THEN /\ Len(writers[w].buf) < MaxBlocks
            /\ writers' = [writers EXCEPT ![w].buf = Append(@, block),
                                          ![w].written = Append(@, block)]
       ELSE UNCHANGED writers
    /\ UNCHANGED <<now, caches, entries, currentSize, panicked>>

\* memoryWriter.Write called by the owner of the writer
Write(w, block) ==
    /\ ~panicked
    /\ UNCHANGED <<gitVars, diskVars, pathVars>>
    /\ fetch.w # w
    /\ WriterWrite(w, block)
    /\ UNCHANGED fetch

LimitBytes == LimitMB * 1024 * 1024

\* the locked part of memoryWriter.Close on a non-nil map: every result it can leave
PublishOutcomes(wr) ==
    LET ns == wr.namespace
        newSize == Size(wr.buf)
        ents0 == IF ns \in DOMAIN entries THEN entries ELSE MapPut(entries, ns, EmptyMap)
        oldSize == IF wr.key \in DOMAIN ents0[ns] THEN Size(ents0[ns][wr.key].data) ELSE 0
        neededSpace == currentSize - oldSize + newSize - LimitBytes
        evictions == IF LimitBytes > 0 /\ neededSpace > 0
                     THEN evictOldest(ents0, currentSize, neededSpace)
                     ELSE {[entries |-> ents0, currentSize |-> currentSize, evicted |-> {}]}
    IN  {[entries |-> [e.entries EXCEPT ![ns] =
                          MapPut(@, wr.key, [data |-> wr.buf, expiresAt |-> wr.expiresAt,
                                             headers |-> wr.headers])],
          currentSize |-> e.currentSize - oldSize + newSize,
          neededSpace |-> neededSpace,
          evicted |-> e.evicted,
          kept |-> EntryInfos(ents0) \ e.evicted] : e \in evictions}

\* memoryWriter.Close past the context check: the nil-map panic or the publication
WriterPublish(w) ==
    LET wr == writers[w]
    IN  IF caches[wr.cache].entries = "nil"
        THEN /\ writers' = [writers EXCEPT ![w].st = "closed", ![w].err = ErrPanic]
             /\ panicked' = TRUE
             /\ UNCHANGED <<entries, currentSize>>
        ELSE \E out \in PublishOutcomes(wr) :
             /\ entries' = out.entries
             /\ currentSize' = out.currentSize
             /\ writers' = [writers EXCEPT ![w].st = "closed", ![w].buf = <<>>]
             /\ UNCHANGED panicked

WriterCloseIgnoringContext(w) ==
    /\ writers[w].st # "none"
    /\ IF writers[w].st = "closed"
       THEN UNCHANGED <<entries, currentSize, writers, panicked>>
       ELSE WriterPublish(w)
    /\ UNCHANGED <<now, caches>>

WriterClose(w) ==
    /\ writers[w].st # "none"
    /\ IF writers[w].st = "closed"
       THEN UNCHANGED <<entries, currentSize, writers, panicked>>
       ELSE IF writers[w].ctxDone
       THEN /\ writers' = [writers EXCEPT ![w].st = "closed", ![w].err = ErrCancelled]
            /\ UNCHANGED <<entries, currentSize, panicked>>
       ELSE WriterPublish(w)
    /\ UNCHANGED <<now, caches>>

\* memoryWriter.Close called by the owner of the writer
CloseWriter(w) ==
    /\ ~panicked
    /\ UNCHANGED <<gitVars, diskVars, pathVars>>
    /\ fetch.w # w
    /\ WriterClose(w)
    /\ UNCHANGED fetch

----------------------------------------------------------------------------
(* cache.Fetch *)

\* NewKey(r.URL.String()) of the one URL the model fetches
FetchKey == "k1"

\* the body the upstream serves with a 200
UpstreamBody == [i \in 1..MaxBlocks |-> "u"]

UpstreamHeaders == ContentType

FetchOpenAlwaysUpstream(c) ==
    /\ ~panicked
    /\ UNCHANGED <<gitVars, diskVars, pathVars>>
    /\ fetch.pc = "idle"
    /\ fetch' = [NoFetch EXCEPT !.cache = c, !.pc = "do"]
    /\ UNCHANGED <<now, caches, entries, currentSize, writers, panicked>>

\* Fetch up to the cache lookup: a hit is returned as a synthetic 200 response
FetchOpen(c) ==
    /\ ~panicked
    /\ UNCHANGED <<gitVars, diskVars, pathVars>>
    /\ fetch.pc = "idle"
    /\ IF OpenResult(c, FetchKey).err = NilErr
       THEN fetch' = [NoFetch EXCEPT !.cache = c, !.resp = "cached 200",
                                     !.headers = OpenResult(c, FetchKey).headers,
                                     !.body = OpenResult(c, FetchKey).data]
       ELSE fetch' = [NoFetch EXCEPT !.cache = c, !.pc = "do"]
    /\ UNCHANGED <<now, caches, entries, currentSize, writers, panicked>>

FetchNoBodyCachingTheResponse(outcome) ==
    /\ ~panicked
    /\ UNCHANGED <<gitVars, diskVars, pathVars>>
    /\ fetch.pc = "do"
    /\ fetch' = [fetch EXCEPT !.pc = "idle", !.resp = outcome]
    /\ writers' = [writers EXCEPT ![2] = NewWriter(fetch.cache, FetchKey, UpstreamHeaders, 0)]
    /\ UNCHANGED <<now, caches, entries, currentSize, panicked>>

\* client.Do failed, or answered with a status other than 200
FetchNoBody(outcome) ==
    /\ ~panicked
    /\ UNCHANGED <<gitVars, diskVars, pathVars>>
    /\ fetch.pc = "do"
    /\ fetch' = [fetch EXCEPT !.pc = "idle", !.resp = outcome]
    /\ UNCHANGED <<now, caches, entries, currentSize, writers, panicked>>

\* client.Do answered 200: Create the cache writer, start the copying goroutine and
\* return the response whose body is the read side of the pipe
FetchCreate(w) ==
    /\ ~panicked
    /\ UNCHANGED <<gitVars, diskVars, pathVars>>
    /\ fetch.pc = "do"
    /\ FreeSlot(w)
    /\ writers' = [writers EXCEPT ![w] = NewWriter(fetch.cache, FetchKey, UpstreamHeaders, 0)]
    /\ fetch' = [fetch EXCEPT !.pc = "copy", !.w = w, !.resp = "upstream 200"]
    /\ UNCHANGED <<now, caches, entries, currentSize, panicked>>

\* one round of io.Copy: a block read from upstream goes to the pipe, then to the writer
FetchCopy ==
    /\ ~panicked
    /\ UNCHANGED <<gitVars, diskVars, pathVars>>
    /\ fetch.pc = "copy"
    /\ fetch.read < Len(UpstreamBody)
    /\ WriterWrite(fetch.w, UpstreamBody[fetch.read + 1])
    /\ fetch' = [fetch EXCEPT !.read = @ + 1, !.sent = @ + 1]

\* io.Copy returns (end of body, a failed upstream read, or a failed pipe write because
\* the caller closed its side); the goroutine then closes the cache writer and the pipe
FetchFinish(copyErr) ==
    /\ ~panicked
    /\ UNCHANGED <<gitVars, diskVars, pathVars>>
    /\ fetch.pc = "copy"
    /\ (copyErr = NilErr) <=> (fetch.read = Len(UpstreamBody))
    /\ WriterClose(fetch.w)
    /\ fetch' = [fetch EXCEPT !.pc = "idle", !.w = 0,
                              !.pipeErr = IF copyErr # NilErr THEN copyErr
                                          ELSE writers'[fetch.w].err]

CopyErrors == {NilErr, "unexpected EOF", "io: read/write on closed pipe"}

----------------------------------------------------------------------------
(* Specifications: the same operations over different input domains *)

WithLastModified(v) ==
    [n \in {"Content-Type", "Last-Modified"} |->
        IF n = "Content-Type" THEN <<TextPlain>> ELSE <<v>>]

HeaderInputs == {ContentType, WithLastModified(Preset), WithLastModified(EmptyString)}

TTLs == {-1, 0, 1}

\* the block a writer slot writes when bodies only have to be told apart by writer
BlockOf(w) == IF w = 1 THEN "a" ELSE "b"

\* concurrent writers and readers of one key of the base cache
NextAtomic ==
    \/ \E w \in WriterIds : Create(w, 1, "k1", WithLastModified(Preset), 1)
    \/ \E w \in WriterIds : Write(w, BlockOf(w))
    \/ \E w \in WriterIds : Cancel(w)
    \/ \E w \in WriterIds : CloseWriter(w)
    \/ Stat(1, "k1")
    \/ Open(1, "k1")
    \/ Delete(1, "k1")

SpecAtomic == Init /\ [][NextAtomic]_vars

\* one writer at a time, every header and ttl input, the clock running
NextRoundTrip ==
    \/ Tick
    \/ \E headers \in HeaderInputs, ttl \in TTLs : Create(1, 1, "k1", headers, ttl)
    \/ \E b \in Blocks : Write(1, b)
    \/ CloseWriter(1)
    \/ Stat(1, "k1")
    \/ Open(1, "k1")
    \/ Delete(1, "k1")

SpecRoundTrip == Init /\ [][NextRoundTrip]_vars

\* two namespaces, two keys, a small limit: size eviction
\* the keys used through the base cache and through a view
KeysVia(c) == IF c = 1 THEN Keys ELSE {"k1"}

NextEvict ==
    \/ Namespace(1, "git")
    \/ \E c \in CacheIds, ttl \in {0, 1} : \E key \in KeysVia(c) :
          Create(1, c, key, WithLastModified(Preset), ttl)
    \/ Write(1, "a")
    \/ CloseWriter(1)
    \/ \E c \in CacheIds : \E key \in KeysVia(c) : Stat(c, key)
    \/ \E c \in CacheIds : \E key \in KeysVia(c) : Open(c, key)
    \/ \E c \in CacheIds : \E key \in KeysVia(c) : Delete(c, key)

SpecEvict == Init /\ [][NextEvict]_vars

\* backends and views being closed while writers are open
NextClose ==
    \/ \E c \in CacheIds : Namespace(c, "git")
    \/ \E c \in CacheIds : Close(c)
    \/ \E c \in CacheIds : Create(1, c, "k1", WithLastModified(Preset), 1)
    \/ Write(1, "a")
    \/ CloseWriter(1)
    \/ \E c \in CacheIds : Stat(c, "k1")
    \/ \E c \in CacheIds : Open(c, "k1")
    \/ \E c \in CacheIds : Delete(c, "k1")

SpecClose == Init /\ [][NextClose]_vars

\* fetch-through on the base cache, next to a writer of the same key
NextFetch ==
    \/ Tick
    \/ FetchOpen(1)
    \/ \E outcome \in {"502 Bad Gateway", "upstream 404", "upstream 500"} :
          FetchNoBody(outcome)
    \/ FetchCreate(2)
    \/ FetchCopy
    \/ \E copyErr \in CopyErrors : FetchFinish(copyErr)
    \/ Cancel(2)
    \/ Create(1, 1, FetchKey, WithLastModified(Preset), 1)
    \/ Write(1, "a")
    \/ CloseWriter(1)
    \/ Open(1, FetchKey)
    \/ Delete(1, FetchKey)

SpecFetch == Init /\ [][NextFetch]_vars

----------------------------------------------------------------------------
(* Properties *)

\* the step closes the open writer w
Closes(w) == writers[w].st = "open" /\ writers'[w].st = "closed"

\* the step closes the open writer w and its Close returns nil
ClosesOK(w) == Closes(w) /\ writers'[w].err = NilErr

\* C1: what Open and Stat return for a key changes only to NotFound or, in the very step
\* in which a writer of that namespace and key closes successfully, to everything that
\* writer was given and its headers; no step shows a body still being written.
C1_AtomicPublish ==
    [][\A c \in CacheIds, key \in Keys :
          (OpenResult(c, key)' # OpenResult(c, key) \/ StatResult(c, key)' # StatResult(c, key))
          => \/ OpenResult(c, key)' = NotFound /\ StatResult(c, key)'.err = ErrNotExist
             \/ \E w \in WriterIds :
                   /\ ClosesOK(w)
                   /\ writers[w].namespace = caches[c].namespace
                   /\ writers[w].key = key
                   /\ OpenResult(c, key)' = [err |-> NilErr, data |-> writers[w].written,
                                             headers |-> writers[w].headers]
                   /\ StatResult(c, key)' = [err |-> NilErr, headers |-> writers[w].headers]]_vars

\* one writer has published two blocks, which Open returns, while the other writer of the
\* same key is open with one block written
C1_Witness ==
    \E w1, w2 \in WriterIds :
        /\ w1 # w2
        /\ writers[w1].st = "closed" /\ writers[w1].err = NilErr
        /\ Len(writers[w1].written) = 2
        /\ OpenResult(1, "k1").err = NilErr
        /\ OpenResult(1, "k1").data = writers[w1].written
        /\ writers[w2].st = "open" /\ writers[w2].key = "k1"
        /\ Len(writers[w2].buf) = 1

\* C3: closing a writer whose context was cancelled returns the cancellation error and
\* leaves the entries, the accounted size and every Open and Stat result as they were.
C3_CancelledCloseChangesNothing ==
    [][\A w \in WriterIds :
          (Closes(w) /\ writers[w].ctxDone)
          => /\ writers'[w].err = ErrCancelled
             /\ entries' = entries
             /\ currentSize' = currentSize
             /\ \A c \in CacheIds, key \in Keys :
                   /\ OpenResult(c, key)' = OpenResult(c, key)
                   /\ StatResult(c, key)' = StatResult(c, key)]_vars

\* a writer with a block written was closed after its context was cancelled, and the
\* entry published before it is still the one Open returns
C3_Witness ==
    \E w \in WriterIds :
        /\ writers[w].st = "closed" /\ writers[w].err = ErrCancelled
        /\ writers[w].written # <<>>
        /\ OpenResult(1, "k1").err = NilErr
        /\ OpenResult(1, "k1").data # writers[w].written

\* C2: when the goroutine of Fetch ends its copy before the upstream body was drained,
\* the step publishes nothing: the entries, and so what Open of the key returns, stay as
\* they were.
C2_FailedCopyPublishesNothing ==
    [][(fetch.pc = "copy" /\ fetch'.pc = "idle" /\ fetch.read < Len(UpstreamBody))
       => /\ entries' = entries
          /\ OpenResult(fetch.cache, FetchKey)' = OpenResult(fetch.cache, FetchKey)]_vars

\* the entry Create/Close stored for writer w, as the step leaves it
StoredBy(w) == entries'[writers[w].namespace][writers[w].key]

\* every header of given is in got with the same value list
ContainsHeaders(got, given) ==
    \A n \in DOMAIN given : n \in DOMAIN got /\ got[n] = given[n]

\* the caller's headers without a Last-Modified whose first value is empty
WithoutEmptyLastModified(h) ==
    [n \in {x \in DOMAIN h : x # "Last-Modified" \/ HeaderGet(h, x) # EmptyString} |-> h[n]]

\* a tick of the clock that leaves the entry under (c, key) unexpired keeps Open's result
UnexpiredStaysReadable ==
    \A c \in CacheIds, key \in Keys :
        (now' > now /\ OpenResult(c, key).err = NilErr
            /\ ~After(now', entries[caches[c].namespace][key].expiresAt))
        => OpenResult(c, key)' = OpenResult(c, key)

\* C4 as stated: after Create with ttl > 0, writes and a successful Close, Open before the
\* expiry returns the bytes written and headers holding every header given to Create plus
\* a Last-Modified.
C4_RoundTripAllHeaders ==
    [][/\ \A w \in WriterIds :
             (ClosesOK(w) /\ writers[w].argTTL > 0 /\ ~After(now', writers[w].expiresAt))
             => /\ OpenResult(writers[w].cache, writers[w].key)'.err = NilErr
                /\ OpenResult(writers[w].cache, writers[w].key)'.data = writers[w].written
                /\ ContainsHeaders(OpenResult(writers[w].cache, writers[w].key)'.headers,
                                   writers[w].argHeaders)
                /\ HeaderGet(OpenResult(writers[w].cache, writers[w].key)'.headers,
                             "Last-Modified") # EmptyString
       /\ UnexpiredStaysReadable]_vars

\* C4 amended: the same, except that a Last-Modified given with an empty first value is
\* not kept but replaced by the creation time.
C4_RoundTrip ==
    [][/\ \A w \in WriterIds :
             (ClosesOK(w) /\ writers[w].argTTL > 0 /\ ~After(now', writers[w].expiresAt))
             => /\ OpenResult(writers[w].cache, writers[w].key)'.err = NilErr
                /\ OpenResult(writers[w].cache, writers[w].key)'.data = writers[w].written
                /\ ContainsHeaders(OpenResult(writers[w].cache, writers[w].key)'.headers,
                                   WithoutEmptyLastModified(writers[w].argHeaders))
                /\ HeaderGet(OpenResult(writers[w].cache, writers[w].key)'.headers,
                             "Last-Modified") # EmptyString
       /\ UnexpiredStaysReadable]_vars

\* a two-block body written with ttl 1 and only a Content-Type is read back one tick
\* after its creation, with the Content-Type and the creation time as Last-Modified
C4_Witness ==
    \E w \in WriterIds :
        /\ writers[w].st = "closed" /\ writers[w].err = NilErr
        /\ writers[w].argTTL = 1 /\ writers[w].argHeaders = ContentType
        /\ Len(writers[w].written) = 2
        /\ now = writers[w].createdAt + 1
        /\ OpenResult(1, writers[w].key) =
              [err |-> NilErr, data |-> writers[w].written,
               headers |-> HeaderSet(ContentType, "Last-Modified",
                                     FormatHTTPTime(writers[w].createdAt))]

\* C5: once the clock is past an entry's expiresAt, Open and Stat of it return NotFound,
\* through every cache struct of its namespace, while the entry is still stored.
C5_ExpiredIsNotFound ==
    \A c \in CacheIds, key \in Keys :
        LET ns == caches[c].namespace
        IN  (ns \in DOMAIN entries /\ key \in DOMAIN entries[ns]
                /\ now > entries[ns][key].expiresAt)
            => /\ OpenResult(c, key) = NotFound
               /\ StatResult(c, key).err = ErrNotExist

\* an entry that was created with the default ttl and has since expired is still stored
C5_Witness ==
    /\ "" \in DOMAIN entries /\ "k1" \in DOMAIN entries[""]
    /\ entries[""]["k1"].expiresAt = MaxTTL
    /\ Len(entries[""]["k1"].data) > 0
    /\ now = MaxTTL + 1
    /\ OpenResult(1, "k1") = NotFound

\* C7: an entry created with ttl <= 0 expires at its creation time plus max_ttl.
C7_NonPositiveTTLUsesMaxTTL ==
    [][\A w \in WriterIds :
          (ClosesOK(w) /\ writers[w].argTTL <= 0)
          => StoredBy(w).expiresAt = writers[w].createdAt + MaxTTL]_vars

\* the step is an operation made under namespace A: a Create, Write, Close or context
\* cancellation of a writer of A, or a Delete through a cache struct of A
OpUnder(A) ==
    \/ \E w \in WriterIds : writers'[w] # writers[w] /\ writers'[w].namespace = A
    \/ \E c \in CacheIds : caches[c].namespace = A /\ \E key \in Keys : Delete(c, key)

\* Close of writer w has to make room: neededSpace > 0 under a positive limit
NeedsRoom(w) ==
    LET ns == writers[w].namespace
        oldSize == IF ns \in DOMAIN entries /\ writers[w].key \in DOMAIN entries[ns]
                   THEN Size(entries[ns][writers[w].key].data) ELSE 0
    IN  LimitBytes > 0 /\ currentSize - oldSize + Size(writers[w].buf) - LimitBytes > 0

\* C6 as stated: no operation under a namespace A changes what Open or Stat of any key
\* returns under another namespace.
C6_NamespacesIndependent ==
    [][\A A \in Namespaces :
          OpUnder(A) =>
             \A c \in CacheIds, key \in Keys :
                caches[c].namespace # A =>
                   /\ OpenResult(c, key)' = OpenResult(c, key)
                   /\ StatResult(c, key)' = StatResult(c, key)]_vars

\* C6 amended: an operation under A leaves Open and Stat under another namespace as they
\* were, except that a successful Close under A that has to make room may evict the other
\* namespace's entry, whose Open and Stat then return NotFound.
C6_NamespacesIndependentButEviction ==
    [][\A A \in Namespaces :
          OpUnder(A) =>
             \A c \in CacheIds, key \in Keys :
                caches[c].namespace # A =>
                   \/ /\ OpenResult(c, key)' = OpenResult(c, key)
                      /\ StatResult(c, key)' = StatResult(c, key)
                   \/ /\ OpenResult(c, key)' = NotFound
                      /\ StatResult(c, key)'.err = ErrNotExist
                      /\ \E w \in WriterIds :
                            ClosesOK(w) /\ writers[w].namespace = A /\ NeedsRoom(w)]_vars

\* the same key holds different bodies under "" and under "git", both readable, the one
\* under "git" published last
C6_Witness ==
    /\ Len(caches) = 2
    /\ OpenResult(1, "k1").err = NilErr
    /\ OpenResult(2, "k1").err = NilErr
    /\ OpenResult(1, "k1").data # OpenResult(2, "k1").data
    /\ writers[1].st = "closed" /\ writers[1].err = NilErr /\ writers[1].namespace = "git"
    /\ OpenResult(2, "k1").data = writers[1].written

\* C8: a successful Close stores the writer's body, and when that body fits the limit
\* the bytes stored right after the Close fit it too.
C8_CloseKeepsWithinLimit ==
    [][\A w \in WriterIds :
          ClosesOK(w) =>
             /\ writers[w].namespace \in DOMAIN entries'
             /\ writers[w].key \in DOMAIN entries'[writers[w].namespace]
             /\ StoredBy(w).data = writers[w].written
             /\ (Size(writers[w].written) <= LimitBytes => StoredBytes' <= LimitBytes)]_vars

\* C37: the Size that Stats reports is the sum of the body lengths of all the
\* entries the cache stores, over all namespaces, whatever Creates, Closes,
\* overwrites, Deletes and evictions came before.
C37_SizeIsSumOfBodies == StatsResult(1).Size = StoredBytes

RECURSIVE SumInfoSizes(_)
SumInfoSizes(S) ==
    IF S = {} THEN 0
    ELSE LET e == CHOOSE x \in S : TRUE IN e.size + SumInfoSizes(S \ {e})

C10_ClosedBackendIsInert ==
    [][caches[1].entries = "nil" =>
          /\ ~panicked'
          /\ \A ns \in DOMAIN entries' : \A key \in DOMAIN entries'[ns] :
                /\ ns \in DOMAIN entries
                /\ key \in DOMAIN entries[ns]
                /\ entries'[ns][key] = entries[ns][key]
          /\ \A c \in 1..Len(caches'), key \in Keys :
                /\ OpenResult(c, key)' = NotFound
                /\ StatResult(c, key)'.err = ErrNotExist]_vars

----------------------------------------------------------------------------
(* The git clone manager (internal/gitclone/manager.go) *)

RepoIds == 1..Len(repos)

\* goroutine p is free to call, or its caller has brought it to this call
Begins(p, label) == procs[p].pc \in {"idle", label}

\* the record of p after its call returned: a free goroutine forgets the call, one
\* that runs a request or a job goes on at the label
Ret(p, label, ret, err) ==
    IF procs[p].task = "none"
    THEN [NoProc EXCEPT !.ret = ret, !.err = err, !.done = label]
    ELSE [procs[p] EXCEPT !.pc = label, !.ret = ret, !.err = err, !.nested = FALSE,
                          !.done = label]

\* the owner of the call's context cancels it
CancelCtx(p) ==
    /\ procs[p].pc # "idle"
    /\ ~procs[p].ctxDone
    /\ procs' = [procs EXCEPT ![p].ctxDone = TRUE]
    /\ UNCHANGED <<now, cacheVars, diskVars, pathVars, clones, repos, disk, strategyVars>>

\* Manager.GetOrCreate, the lookup under clonesMu.RLock
GetOrCreateRLocked(p, url) ==
    /\ Begins(p, "call GetOrCreate")
    /\ procs[p].pc = "call GetOrCreate" => procs[p].url = url
    /\ IF clones[url] # 0
       THEN procs' = [procs EXCEPT ![p] = Ret(p, "ret GetOrCreate", clones[url], NilErr)]
       ELSE procs' = [procs EXCEPT ![p].pc = "GetOrCreate lock", ![p].url = url]
    /\ UNCHANGED <<now, cacheVars, diskVars, pathVars, clones, repos, disk, strategyVars>>

GetOrCreateLockedWithoutRecheck(p) ==
    LET url == procs[p].url
    IN  /\ procs[p].pc = "GetOrCreate lock"
        /\ Len(repos) < MaxRepos
        /\ repos' = Append(repos, NewRepository(url, IF url \in disk THEN StateReady
                                                    ELSE StateEmpty))
        /\ clones' = [clones EXCEPT ![url] = Len(repos) + 1]
        /\ procs' = [procs EXCEPT ![p] = Ret(p, "ret GetOrCreate", Len(repos) + 1, NilErr)]
        /\ UNCHANGED <<now, cacheVars, diskVars, pathVars, disk, strategyVars>>

\* Manager.GetOrCreate, the second lookup and the construction under clonesMu.Lock
GetOrCreateLocked(p) ==
    LET url == procs[p].url
    IN  /\ procs[p].pc = "GetOrCreate lock"
        /\ IF clones[url] # 0
           THEN /\ procs' = [procs EXCEPT
                                ![p] = Ret(p, "ret GetOrCreate", clones[url], NilErr)]
                /\ UNCHANGED <<clones, repos>>
           ELSE /\ Len(repos) < MaxRepos
                /\ repos' = Append(repos, NewRepository(url, IF url \in disk
                                                            THEN StateReady
                                                            ELSE StateEmpty))
                /\ clones' = [clones EXCEPT ![url] = Len(repos) + 1]
                /\ procs' = [procs EXCEPT
                                ![p] = Ret(p, "ret GetOrCreate", Len(repos) + 1, NilErr)]
        /\ UNCHANGED <<now, cacheVars, diskVars, pathVars, disk, strategyVars>>

\* Manager.DiscoverExisting, the walk callback on the mirror directory of url: ok tells
\* whether configureMirror and registerMaintenance succeeded
DiscoverExisting(url, ok) ==
    /\ url \in disk
    /\ IF ok
       THEN /\ Len(repos) < MaxRepos
            /\ repos' = Append(repos, NewRepository(url, StateReady))
            /\ clones' = [clones EXCEPT ![url] = Len(repos) + 1]
       ELSE UNCHANGED <<clones, repos>>
    /\ UNCHANGED <<now, cacheVars, diskVars, pathVars, disk, procs, strategyVars>>

\* Repository.State
State(r) == repos[r].state

\* the operations that take the read lock of r.mu around their git command or callback
ReadOps == {"GetLocalRefs", "HasCommit", "WithReadLock"}
RLockOps == ReadOps \cup {"Repack"}

\* the position of a goroutine that runs the git command or callback of op
Running(op) == "running " \o op

\* the goroutines that hold the read lock of r.mu
RLockHolders(r) ==
    {q \in Procs : procs[q].repo = r /\ \E op \in RLockOps : procs[q].pc = Running(op)}

\* a write Lock of r.mu waits for them
RLocked(r) == RLockHolders(r) # {}

\* r.mu.RLock() of GetLocalRefs, HasCommit, WithReadLock and Repack: granted while
\* no goroutine holds the write lock; the git command or callback then runs
RLock(p, r, op) ==
    /\ Begins(p, "call " \o op)
    /\ repos[r].mu = 0
    /\ procs' = [procs EXCEPT ![p].pc = Running(op), ![p].repo = r]
    /\ UNCHANGED <<now, cacheVars, diskVars, pathVars, clones, repos, disk, strategyVars>>

\* the git command or callback ends and r.mu.RUnlock() is called
RUnlock(p, err) ==
    /\ \E op \in RLockOps :
          /\ procs[p].pc = Running(op)
          /\ procs' = [procs EXCEPT ![p] = Ret(p, "ret " \o op, 0, err)]
    /\ UNCHANGED <<now, cacheVars, diskVars, pathVars, clones, repos, disk, strategyVars>>

\* a State call of goroutine p on repository r: RLock waits while a goroutine holds
\* the write lock, then the state is read and returned
RepositoryState(p, r) ==
    /\ Begins(p, "call State")
    /\ repos[r].mu = 0
    /\ procs' = [procs EXCEPT ![p] = [Ret(p, "ret State", 0, NilErr) EXCEPT
                                         !.saw = State(r)]]
    /\ UNCHANGED <<now, cacheVars, diskVars, pathVars, clones, repos, disk, strategyVars>>

\* Repository.NeedsFetch
NeedsFetch(r, fetchInterval) == now - repos[r].lastFetch >= fetchInterval

CloneBeginUnlessCloning(p, r) ==
    /\ Begins(p, "call Clone")
    /\ procs[p].pc = "call Clone" => procs[p].repo = r
    /\ repos[r].mu = 0 /\ ~RLocked(r)
    /\ IF repos[r].state = StateCloning
       THEN /\ procs' = [procs EXCEPT ![p] = Ret(p, "ret Clone", 0, NilErr)]
            /\ UNCHANGED repos
       ELSE /\ repos' = [repos EXCEPT ![r].state = StateCloning]
            /\ procs' = [procs EXCEPT ![p].pc = "executeClone", ![p].repo = r,
                                      ![p].url = repos[r].url]
    /\ UNCHANGED <<now, cacheVars, diskVars, pathVars, clones, disk, strategyVars>>

CloneBeginUnlessReady(p, r) ==
    /\ Begins(p, "call Clone")
    /\ procs[p].pc = "call Clone" => procs[p].repo = r
    /\ repos[r].mu = 0 /\ ~RLocked(r)
    /\ IF repos[r].state = StateReady
       THEN /\ procs' = [procs EXCEPT ![p] = Ret(p, "ret Clone", 0, NilErr)]
            /\ UNCHANGED repos
       ELSE /\ repos' = [repos EXCEPT ![r].state = StateCloning]
            /\ procs' = [procs EXCEPT ![p].pc = "executeClone", ![p].repo = r,
                                      ![p].url = repos[r].url]
    /\ UNCHANGED <<now, cacheVars, diskVars, pathVars, clones, disk, strategyVars>>

CloneBeginHoldingTheLock(p, r) ==
    /\ Begins(p, "call Clone")
    /\ procs[p].pc = "call Clone" => procs[p].repo = r
    /\ repos[r].mu = 0 /\ ~RLocked(r)
    /\ IF repos[r].state # StateEmpty
       THEN /\ procs' = [procs EXCEPT ![p] = Ret(p, "ret Clone", 0, NilErr)]
            /\ UNCHANGED repos
       ELSE /\ repos' = [repos EXCEPT ![r].state = StateCloning, ![r].mu = p]
            /\ procs' = [procs EXCEPT ![p].pc = "executeClone", ![p].repo = r,
                                      ![p].url = repos[r].url]
    /\ UNCHANGED <<now, cacheVars, diskVars, pathVars, clones, disk, strategyVars>>

\* Repository.Clone, the first critical section: only an empty repository is cloned
CloneBegin(p, r) ==
    /\ Begins(p, "call Clone")
    /\ procs[p].pc = "call Clone" => procs[p].repo = r
    /\ repos[r].mu = 0 /\ ~RLocked(r)
    /\ IF repos[r].state # StateEmpty
       THEN /\ procs' = [procs EXCEPT ![p] = Ret(p, "ret Clone", 0, NilErr)]
            /\ UNCHANGED repos
       ELSE /\ repos' = [repos EXCEPT ![r].state = StateCloning]
            /\ procs' = [procs EXCEPT ![p].pc = "executeClone", ![p].repo = r,
                                      ![p].url = repos[r].url]
    /\ UNCHANGED <<now, cacheVars, diskVars, pathVars, clones, disk, strategyVars>>

\* what executeClone can end with: git clone --mirror failed, the clone succeeded and
\* configureMirror or registerMaintenance failed, or all of it succeeded
CloneOutcomes == {"clone failed", "configure failed", "ok"}

\* Repository.executeClone, run without the lock
ExecuteClone(p, outcome) ==
    /\ procs[p].pc = "executeClone"
    /\ disk' = IF outcome = "clone failed" THEN disk ELSE disk \cup {procs[p].url}
    /\ procs' = [procs EXCEPT ![p].pc = "Clone end",
                              ![p].err = IF outcome = "ok" THEN NilErr ELSE ErrGit]
    /\ UNCHANGED <<now, cacheVars, diskVars, pathVars, clones, repos, strategyVars>>

CloneEndLeavingCloning(p) ==
    LET r == procs[p].repo
    IN  /\ procs[p].pc = "Clone end"
        /\ repos[r].mu = 0 /\ ~RLocked(r)
        /\ IF procs[p].err # NilErr
           THEN UNCHANGED repos
           ELSE repos' = [repos EXCEPT ![r].state = StateReady, ![r].lastFetch = now]
        /\ procs' = [procs EXCEPT ![p] = Ret(p, "ret Clone", 0, procs[p].err)]
        /\ UNCHANGED <<now, cacheVars, diskVars, pathVars, clones, disk, strategyVars>>

\* Repository.Clone, the second critical section
CloneEnd(p) ==
    LET r == procs[p].repo
    IN  /\ procs[p].pc = "Clone end"
        /\ repos[r].mu = 0 /\ ~RLocked(r)
        /\ IF procs[p].err # NilErr
           THEN repos' = [repos EXCEPT ![r].state = StateEmpty]
           ELSE repos' = [repos EXCEPT ![r].state = StateReady, ![r].lastFetch = now]
        /\ procs' = [procs EXCEPT ![p] = Ret(p, "ret Clone", 0, procs[p].err)]
        /\ UNCHANGED <<now, cacheVars, diskVars, pathVars, clones, disk, strategyVars>>

\* a Fetch call of repository r has taken the semaphore token
FetchRunning(r) ==
    \E q \in Procs : procs[q].repo = r /\ procs[q].pc \in {"Fetch lock", "git fetch"}

\* the record of p after Repository.Fetch returned err, to EnsureRefsUpToDate or to
\* the caller
FetchRet(p, err) ==
    IF procs[p].nested
    THEN [procs[p] EXCEPT !.pc = "Ensure after fetch", !.err = err, !.nested = FALSE]
    ELSE Ret(p, "ret Fetch", 0, err)

\* git fetch of repository r has ended with err: the EnsureRefsUpToDate calls of r
\* that are in their Fetch or past it take note of a success
Fetched(proc, r, err) ==
    IF err = NilErr /\ proc.repo = r /\ (proc.nested \/ proc.pc = "Ensure after fetch")
    THEN [proc EXCEPT !.fetched = TRUE]
    ELSE proc

\* git fetch run by p has ended with err: the job p runs, if any, takes note of a
\* success
JobFetched(p, err) ==
    IF err = NilErr /\ procs[p].task = "job"
    THEN [jobs EXCEPT ![procs[p].job].fetchedAt = now]
    ELSE jobs

\* Repository.Fetch, the outer select: take the token, give up on a cancelled
\* context, or (default) go and wait for the fetch that runs
RepositoryFetchSelect(p, r) ==
    /\ Begins(p, "call Fetch")
    /\ procs[p].pc = "call Fetch" => procs[p].repo = r
    /\ \/ /\ repos[r].fetchSem = 1
          /\ repos' = [repos EXCEPT ![r].fetchSem = 0]
          /\ procs' = [procs EXCEPT ![p].pc = "Fetch lock", ![p].repo = r,
                                    ![p].sawRunning = FetchRunning(r)]
       \/ /\ procs[p].ctxDone
          /\ procs' = [procs EXCEPT ![p] = FetchRet(p, ErrCtx)]
          /\ UNCHANGED repos
       \/ /\ repos[r].fetchSem = 0
          /\ ~procs[p].ctxDone
          /\ procs' = [procs EXCEPT ![p].pc = "Fetch wait", ![p].repo = r,
                                    ![p].sawRunning = FetchRunning(r)]
          /\ UNCHANGED repos
    /\ UNCHANGED <<now, cacheVars, diskVars, pathVars, clones, disk, strategyVars>>

RepositoryFetchWaitThenFetch(p) ==
    LET r == procs[p].repo
    IN  /\ procs[p].pc = "Fetch wait"
        /\ \/ /\ repos[r].fetchSem = 1
              /\ repos' = [repos EXCEPT ![r].fetchSem = 0]
              /\ procs' = [procs EXCEPT ![p].pc = "Fetch lock"]
           \/ /\ procs[p].ctxDone
              /\ procs' = [procs EXCEPT ![p] = FetchRet(p, ErrCtx)]
              /\ UNCHANGED repos
        /\ UNCHANGED <<now, cacheVars, diskVars, pathVars, clones, disk, strategyVars>>

\* Repository.Fetch, the inner select: once the running fetch has put the token back
\* it is taken, put back, and the call returns nil
RepositoryFetchWait(p) ==
    LET r == procs[p].repo
    IN  /\ procs[p].pc = "Fetch wait"
        /\ \/ /\ repos[r].fetchSem = 1
              /\ procs' = [procs EXCEPT ![p] = FetchRet(p, NilErr)]
           \/ /\ procs[p].ctxDone
              /\ procs' = [procs EXCEPT ![p] = FetchRet(p, ErrCtx)]
        /\ UNCHANGED <<now, cacheVars, diskVars, pathVars, clones, repos, disk, strategyVars>>

\* Repository.Fetch takes r.mu and starts git fetch
RepositoryFetchLock(p) ==
    LET r == procs[p].repo
    IN  /\ procs[p].pc = "Fetch lock"
        /\ repos[r].mu = 0 /\ ~RLocked(r)
        /\ repos' = [repos EXCEPT ![r].mu = p]
        /\ procs' = [procs EXCEPT ![p].pc = "git fetch"]
        /\ UNCHANGED <<now, cacheVars, diskVars, pathVars, clones, disk, strategyVars>>

GitFetchKeepingTheToken(p, err) ==
    LET r == procs[p].repo
    IN  /\ procs[p].pc = "git fetch"
        /\ repos' = [repos EXCEPT ![r].mu = 0,
                                  ![r].lastFetch = IF err = NilErr THEN now ELSE @]
        /\ procs' = [q \in Procs |-> Fetched(IF q = p THEN FetchRet(p, err) ELSE procs[q],
                                              r, err)]
        /\ jobs' = JobFetched(p, err)
        /\ UNCHANGED <<now, cacheVars, diskVars, pathVars, clones, disk, periodic,
                       strategySpools, repoSpools, spools, upstream>>

\* git fetch ends; the deferred calls unlock r.mu and put the token back
GitFetch(p, err) ==
    LET r == procs[p].repo
    IN  /\ procs[p].pc = "git fetch"
        /\ repos' = [repos EXCEPT ![r].mu = 0, ![r].fetchSem = 1,
                                  ![r].lastFetch = IF err = NilErr THEN now ELSE @]
        /\ procs' = [q \in Procs |-> Fetched(IF q = p THEN FetchRet(p, err) ELSE procs[q],
                                              r, err)]
        /\ jobs' = JobFetched(p, err)
        /\ UNCHANGED <<now, cacheVars, diskVars, pathVars, clones, disk, periodic,
                       strategySpools, repoSpools, spools, upstream>>

Max(a, b) == IF a > b THEN a ELSE b

\* the EnsureRefsUpToDate call of p has checked the refs and returns nil: the
\* repository remembers when the latest such call was made
EnsureOK(p) == [repos EXCEPT ![procs[p].repo].okMade = Max(@, procs[p].madeAt)]

\* Repository.EnsureRefsUpToDate, the first critical section: a valid check younger
\* than RefCheckInterval ends the call, otherwise the check is stamped before it is made
EnsureRefsUpToDateBegin(p, r) ==
    /\ Begins(p, "call EnsureRefsUpToDate")
    /\ procs[p].pc = "call EnsureRefsUpToDate" => procs[p].repo = r
    /\ repos[r].mu = 0 /\ ~RLocked(r)
    /\ IF repos[r].refCheckValid /\ now - repos[r].lastRefCheck < RefCheckInterval
       THEN /\ procs' = [procs EXCEPT ![p] = Ret(p, "ret EnsureRefsUpToDate", 0, NilErr)]
            /\ UNCHANGED repos
       ELSE /\ repos' = [repos EXCEPT ![r].lastRefCheck = now, ![r].refCheckValid = TRUE]
            /\ procs' = [procs EXCEPT
                  ![p].pc = "for-each-ref", ![p].repo = r, ![p].madeAt = now,
                  ![p].covered = /\ repos[r].okMade # ZeroTime
                                 /\ now - repos[r].okMade < RefCheckInterval]
    /\ UNCHANGED <<now, cacheVars, diskVars, pathVars, clones, disk, strategyVars>>

\* Repository.GetLocalRefs: git for-each-ref under the read lock
GetLocalRefs(p, err) ==
    /\ procs[p].pc = "for-each-ref"
    /\ repos[procs[p].repo].mu = 0
    /\ IF err # NilErr
       THEN procs' = [procs EXCEPT ![p] = Ret(p, "ret EnsureRefsUpToDate", 0, err)]
       ELSE procs' = [procs EXCEPT ![p].pc = "ls-remote"]
    /\ UNCHANGED <<now, cacheVars, diskVars, pathVars, clones, repos, disk, strategyVars>>

\* Repository.GetUpstreamRefs (git ls-remote) and the comparison of refs/heads/*
GetUpstreamRefs(p, err, needsFetch) ==
    /\ procs[p].pc = "ls-remote"
    /\ procs' = [procs EXCEPT ![p] =
          IF err # NilErr THEN Ret(p, "ret EnsureRefsUpToDate", 0, err)
          ELSE IF needsFetch THEN [procs[p] EXCEPT !.pc = "call Fetch", !.nested = TRUE]
          ELSE [procs[p] EXCEPT !.pc = "Ensure valid"]]
    /\ UNCHANGED <<now, cacheVars, diskVars, pathVars, clones, repos, disk, strategyVars>>

\* Repository.EnsureRefsUpToDate, nothing to fetch
EnsureRefsUpToDateValid(p) ==
    LET r == procs[p].repo
    IN  /\ procs[p].pc = "Ensure valid"
        /\ repos[r].mu = 0 /\ ~RLocked(r)
        /\ repos' = [EnsureOK(p) EXCEPT ![r].refCheckValid = TRUE]
        /\ procs' = [procs EXCEPT ![p] = Ret(p, "ret EnsureRefsUpToDate", 0, NilErr)]
        /\ UNCHANGED <<now, cacheVars, diskVars, pathVars, clones, disk, strategyVars>>

\* Repository.EnsureRefsUpToDate after its Fetch: a failed fetch invalidates the check
EnsureRefsUpToDateAfterFetch(p) ==
    LET r == procs[p].repo
    IN  /\ procs[p].pc = "Ensure after fetch"
        /\ IF procs[p].err # NilErr
           THEN /\ repos[r].mu = 0 /\ ~RLocked(r)
                /\ repos' = [repos EXCEPT ![r].refCheckValid = FALSE]
           ELSE repos' = EnsureOK(p)
        /\ procs' = [procs EXCEPT
                        ![p] = Ret(p, "ret EnsureRefsUpToDate", 0, procs[p].err)]
        /\ UNCHANGED <<now, cacheVars, diskVars, pathVars, clones, disk, strategyVars>>

\* Repository.Repack: git repack under the read lock
Repack(p, r, err) ==
    /\ Begins(p, "call Repack")
    /\ repos[r].mu = 0
    /\ procs' = [procs EXCEPT ![p] = Ret(p, "ret Repack", 0, err)]
    /\ UNCHANGED <<now, cacheVars, diskVars, pathVars, clones, repos, disk, strategyVars>>

GitErrors == {NilErr, ErrGit}

----------------------------------------------------------------------------
(* Specifications of the clone manager *)

\* the state a process starts in: the mirror directory may hold clones of earlier runs
InitMirrors ==
    /\ now = 0
    /\ caches = <<[namespace |-> "", entries |-> "map"]>>
    /\ entries = EmptyMap
    /\ currentSize = 0
    /\ writers = [w \in WriterIds |-> NoWriter]
    /\ fetch = NoFetch
    /\ panicked = FALSE
    /\ InitManager
    /\ InitStrategy
    /\ disk \in SUBSET URLs
    /\ InitDisk
    /\ InitPath

\* the manager is still being set up by strategy.New: nothing has called into it
Startup == repos = <<>> /\ \A p \in Procs : procs[p] = NoProc

\* the goroutines that clone, and those that fetch, repack and check refs
Cloners == {1, 2}
Fetchers == {2, 3}

\* concurrent Clone, Fetch, Repack and EnsureRefsUpToDate calls on the repository of
\* one URL
NextRepository ==
    \/ \E url \in URLs, ok \in BOOLEAN : Startup /\ DiscoverExisting(url, ok)
    \/ \E url \in URLs : GetOrCreateRLocked(1, url)
    \/ GetOrCreateLocked(1)
    \/ \E p \in Cloners, r \in RepoIds : CloneBegin(p, r)
    \/ \E p \in Cloners, outcome \in CloneOutcomes : ExecuteClone(p, outcome)
    \/ \E p \in Cloners : CloneEnd(p)
    \/ \E p \in Fetchers, r \in RepoIds : RepositoryFetchSelect(p, r)
    \/ \E p \in Fetchers : RepositoryFetchWait(p)
    \/ \E p \in Fetchers : RepositoryFetchLock(p)
    \/ \E p \in Fetchers, err \in GitErrors : GitFetch(p, err)
    \/ \E r \in RepoIds, err \in GitErrors : Repack(3, r, err)
    \/ \E r \in RepoIds : EnsureRefsUpToDateBegin(3, r)
    \/ \E err \in GitErrors : GetLocalRefs(3, err)
    \/ \E err \in GitErrors, needsFetch \in BOOLEAN : GetUpstreamRefs(3, err, needsFetch)
    \/ EnsureRefsUpToDateValid(3)
    \/ EnsureRefsUpToDateAfterFetch(3)

SpecRepository == InitMirrors /\ [][NextRepository]_vars

\* the goroutines that check refs
Checkers == {1, 2}

\* the clock and EnsureRefsUpToDate calls, with the fetches they make, on the ready
\* repository of one URL
NextRefCheck ==
    \/ Tick
    \/ \E url \in URLs : url \in disk /\ GetOrCreateRLocked(1, url)
    \/ GetOrCreateLocked(1)
    \/ \E p \in Checkers, r \in RepoIds : EnsureRefsUpToDateBegin(p, r)
    \/ \E p \in Checkers, err \in GitErrors : GetLocalRefs(p, err)
    \/ \E p \in Checkers, err \in GitErrors, needsFetch \in BOOLEAN :
          GetUpstreamRefs(p, err, needsFetch)
    \/ \E p \in Checkers : EnsureRefsUpToDateValid(p)
    \/ \E p \in Checkers : EnsureRefsUpToDateAfterFetch(p)
    \/ \E p \in Checkers : procs[p].nested /\ RepositoryFetchSelect(p, procs[p].repo)
    \/ \E p \in Checkers : RepositoryFetchWait(p)
    \/ \E p \in Checkers : RepositoryFetchLock(p)
    \/ \E p \in Checkers, err \in GitErrors : GitFetch(p, err)

SpecRefCheck == InitMirrors /\ [][NextRefCheck]_vars

\* concurrent Fetch calls, some with a cancelled context, on the repository of one URL
NextFetchSem ==
    \/ \E url \in URLs : GetOrCreateRLocked(1, url)
    \/ GetOrCreateLocked(1)
    \/ \E p \in Procs, r \in RepoIds : RepositoryFetchSelect(p, r)
    \/ \E p \in Procs : RepositoryFetchWait(p)
    \/ \E p \in Procs : RepositoryFetchLock(p)
    \/ \E p \in Procs, err \in GitErrors : GitFetch(p, err)
    \/ \E p \in Procs : CancelCtx(p)

SpecFetchSem == InitMirrors /\ [][NextFetchSem]_vars

\* concurrent GetOrCreate calls on one manager, and the clones they start
NextManager ==
    \/ \E url \in URLs, ok \in BOOLEAN : Startup /\ DiscoverExisting(url, ok)
    \/ \E p \in Procs, url \in URLs : GetOrCreateRLocked(p, url)
    \/ \E p \in Procs : GetOrCreateLocked(p)
    \/ \E p \in Cloners, r \in RepoIds : CloneBegin(p, r)
    \/ \E p \in Cloners, outcome \in CloneOutcomes : ExecuteClone(p, outcome)
    \/ \E p \in Cloners : CloneEnd(p)

SpecManager == InitMirrors /\ [][NextManager]_vars

----------------------------------------------------------------------------
(* Properties of the clone manager *)

\* goroutine p leaves the position pc in this step
Leaves(p, pc) == procs[p].pc = pc /\ procs'[p].pc # pc

\* C11: the state of a Repository changes only from empty to cloning when a Clone
\* starts, from cloning to ready when executeClone succeeded and from cloning to empty
\* when it failed; nothing changes the state of a ready Repository.
C11_StateTransitions ==
    [][\A r \in RepoIds :
          \/ repos'[r].state = repos[r].state
          \/ /\ repos[r].state = StateEmpty /\ repos'[r].state = StateCloning
             /\ \E p \in Procs : procs'[p].pc = "executeClone" /\ procs[p].pc # "executeClone"
                                 /\ procs'[p].repo = r
          \/ /\ repos[r].state = StateCloning /\ repos'[r].state = StateReady
             /\ \E p \in Procs : Leaves(p, "Clone end") /\ procs[p].repo = r
                                 /\ procs[p].err = NilErr
          \/ /\ repos[r].state = StateCloning /\ repos'[r].state = StateEmpty
             /\ \E p \in Procs : Leaves(p, "Clone end") /\ procs[p].repo = r
                                 /\ procs[p].err # NilErr]_vars

\* a Repository cloned in this run is ready while a Fetch runs on it and
\* EnsureRefsUpToDate is about to fetch as well
C11_Witness ==
    \E r \in RepoIds :
        /\ repos[r].state = StateReady
        /\ repos[r].lastFetch = now
        /\ \E p \in Procs : procs[p].pc = "git fetch" /\ procs[p].repo = r
        /\ \E q \in Procs : procs[q].pc = "Fetch wait" /\ procs[q].nested
        /\ \E c \in Procs : procs[c].done = "ret Clone"

\* the goroutines running git clone for repository r
Cloning(r) == {p \in Procs : procs[p].pc = "executeClone" /\ procs[p].repo = r}

\* C12: at most one goroutine runs git clone for a Repository, and a Clone call that
\* finds the state different from empty returns without running git clone and without
\* changing anything of the Repository.
C12_OneCloneAtATime ==
    [][/\ \A r \in RepoIds : Cardinality(Cloning(r))' <= 1
       /\ \A p \in Procs, r \in RepoIds :
             (CloneBegin(p, r) /\ repos[r].state # StateEmpty)
             => /\ procs'[p].pc # "executeClone"
                /\ procs'[p].done = "ret Clone"
                /\ procs'[p].err = NilErr
                /\ repos' = repos]_vars

\* one goroutine runs git clone while the Clone call of another has returned
C12_Witness ==
    \E p, q \in Procs :
        /\ procs[p].pc = "executeClone"
        /\ repos[procs[p].repo].state = StateCloning
        /\ procs[q].done = "ret Clone"
        /\ procs[q].pc = "idle"

\* the goroutines running git fetch for repository r
Fetching(r) == {p \in Procs : procs[p].pc = "git fetch" /\ procs[p].repo = r}

\* C13: at most one goroutine runs git fetch for a Repository, and none runs it in a
\* Fetch call that began while another Fetch call held the semaphore.
C13_OneFetchAtATime ==
    /\ \A r \in RepoIds : Cardinality(Fetching(r)) <= 1
    /\ \A p \in Procs : procs[p].pc \in {"Fetch lock", "git fetch"} => ~procs[p].sawRunning

\* a Fetch call waits for the git fetch of another call to end
C13_Witness ==
    \E p, q \in Procs :
        /\ procs[p].pc = "git fetch"
        /\ procs[q].pc = "Fetch wait"
        /\ procs[q].repo = procs[p].repo
        /\ procs[q].sawRunning

\* C40: the fetch semaphore of a Repository holds one token, or none while a Fetch
\* call is between taking the token and putting it back
C40_OneToken ==
    \A r \in RepoIds : repos[r].fetchSem = IF FetchRunning(r) THEN 0 ELSE 1

\* a Fetch call whose git fetch failed has returned and the token is back
C40_Witness ==
    \E p \in Procs, r \in RepoIds :
        /\ procs[p].done = "ret Fetch"
        /\ procs[p].err = ErrGit
        /\ ~FetchRunning(r)
        /\ repos[r].fetchSem = 1

\* C35: an EnsureRefsUpToDate call that found a branch missing or different and is
\* about to return nil has seen a git fetch of the Repository succeed since
C35_SuccessMeansFetched ==
    \A p \in Procs :
        (procs[p].pc = "Ensure after fetch" /\ procs[p].err = NilErr) => procs[p].fetched

\* no call is in progress and the EnsureRefsUpToDate calls that returned last failed
LastCheckFailed ==
    /\ \A q \in Procs : procs[q].pc = "idle"
    /\ \E q \in Procs : procs[q].done = "ret EnsureRefsUpToDate"
    /\ \A q \in Procs : procs[q].done = "ret EnsureRefsUpToDate" => procs[q].err # NilErr

\* C36: the EnsureRefsUpToDate call that follows one that returned an error goes on
\* to check the refs
C36_FailedCheckIsRetried ==
    [][\A p \in Procs, r \in RepoIds :
          (LastCheckFailed /\ EnsureRefsUpToDateBegin(p, r))
              => procs'[p].pc = "for-each-ref"]_vars

\* the Repository objects constructed for url
Registered(url) == {r \in RepoIds : repos[r].url = url}

\* C14: a URL's registration never changes once made, no second Repository is ever
\* constructed for it, and every GetOrCreate call returns the registered Repository.
C14_GetOrCreateSameInstance ==
    [][/\ \A url \in URLs :
             /\ clones[url] # 0 => clones'[url] = clones[url]
             /\ Cardinality(Registered(url))' <= 1
       /\ \A p \in Procs, url \in URLs :
             (/\ GetOrCreateRLocked(p, url) \/ (GetOrCreateLocked(p) /\ procs[p].url = url)
              /\ procs'[p].done = "ret GetOrCreate" /\ procs'[p].pc = "idle")
             => /\ procs'[p].ret # 0
                /\ procs'[p].ret = clones'[url]]_vars

\* a GetOrCreate call that found the URL absent is about to take the write lock after
\* another call has registered the Repository and returned it
C14_Witness ==
    \E p, q \in Procs :
        /\ procs[p].pc = "GetOrCreate lock"
        /\ clones[procs[p].url] # 0
        /\ procs[q].done = "ret GetOrCreate"
        /\ procs[q].ret = clones[procs[p].url]

\* C16: an EnsureRefsUpToDate call made less than RefCheckInterval after a call of the
\* Repository that checked the refs and returned nil was made never gets to issue
\* ls-remote.
C16_NoLsRemoteWithinInterval ==
    \A p \in Procs : procs[p].pc = "ls-remote" => ~procs[p].covered

----------------------------------------------------------------------------
(* The git strategy (internal/strategy/git/git.go, proxy.go), with the request spool
   and the job scheduler it calls *)

\* the goroutines of the HTTP server that serve git requests, and the scheduler's
Requesters == {1, 2}
Workers == {3}

UploadPack == "/git-upload-pack"
InfoRefs == "/info/refs"
ReceivePack == "/git-receive-pack"

\* the request has no body
NoBody == ""

\* hex.EncodeToString(sha256.Sum256(body)[:8]) of the request bodies of the model
Sum256Hex(body) == IF body = "want A" THEN "5f2a" ELSE "c01d"

\* SpoolKeyForRequest; the empty key is the empty sequence
SpoolKeyForRequest(req) ==
    IF req.path # UploadPack THEN <<>>
    ELSE IF req.method # "POST" \/ req.body = NoBody THEN <<"upload-pack">>
    ELSE <<"upload-pack-", Sum256Hex(req.body)>>

\* the protocol requests of the model
Requests ==
    [path : {UploadPack, InfoRefs}, method : {"GET"}, body : {NoBody}, service : {""}]
        \cup [path : {UploadPack}, method : {"POST"}, body : {"want A", "want B"},
              service : {""}]

SpoolKeys == {SpoolKeyForRequest(req) : req \in Requests} \ {<<>>}

TableIds == 1..Len(repoSpools)
SpoolIds == 1..Len(spools)
JobIds == 1..Len(jobs)

\* NewRepoSpools: a table without spools
NewRepoSpools(url) == [url |-> url, closed |-> FALSE, spools |-> [k \in SpoolKeys |-> 0]]

\* a new ResponseSpool: being written, status and headers not yet known (0), no bytes
NewResponseSpool(t, key) ==
    [table |-> t, key |-> key, state |-> "writing", status |-> 0, data |-> <<>>]

\* Config.BundleInterval of the modelled Strategy, in clock ticks
BundleInterval == 1

\* the periodic jobs of a key and name that are registered
Registrations(repoKey, name) ==
    {i \in DOMAIN periodic : periodic[i].key = repoKey /\ periodic[i].name = name}

SubmitPeriodicJobAlwaysRegisters(repoKey, name, period, r) ==
    Append(periodic, [key |-> repoKey, name |-> name, period |-> period, repo |-> r,
                      at |-> now, due |-> now + period, ticks |-> 0])

\* scheduler.SubmitPeriodicJob: the first call for a key and name registers a timer
\* of the period, every later call for them is a no-op; at is the time of the
\* registration, due the time of the next tick, ticks how many there were
SubmitPeriodicJob(repoKey, name, period, r) ==
    IF Registrations(repoKey, name) # {}
    THEN periodic
    ELSE Append(periodic, [key |-> repoKey, name |-> name, period |-> period, repo |-> r,
                           at |-> now, due |-> now + period, ticks |-> 0])

\* scheduler.Submit: the job is queued behind the jobs submitted before it; after
\* records how many jobs had ended by then, at the time of the call, fetchedAt the
\* time at which a git fetch run by the job succeeded (ZeroTime: none has)
Submit(repoKey, name, r) ==
    Append(jobs, [key |-> repoKey, name |-> name, repo |-> r, status |-> "queued",
                  after |-> Cardinality({j \in JobIds : jobs[j].status = "done"}),
                  at |-> now, fetchedAt |-> ZeroTime])

NextJobWhileOneRuns(repoKey) ==
    LET queued == {j \in JobIds : jobs[j].key = repoKey /\ jobs[j].status = "queued"}
    IN  IF queued = {} THEN 0 ELSE CHOOSE j \in queued : \A i \in queued : j <= i

\* the job the scheduler starts next for a key: the first one queued, and only when
\* no job of the key is running
NextJob(repoKey) ==
    LET queued == {j \in JobIds : jobs[j].key = repoKey /\ jobs[j].status = "queued"}
    IN  IF queued = {} \/ \E j \in JobIds : jobs[j].key = repoKey /\ jobs[j].status = "running"
        THEN 0
        ELSE CHOOSE j \in queued : \A i \in queued : j <= i

\* a worker of the scheduler takes the next job of a key and calls its function
RunJob(p, repoKey) ==
    LET j == NextJob(repoKey)
    IN  /\ procs[p] = NoProc
        /\ j # 0
        /\ jobs' = [jobs EXCEPT ![j].status = "running"]
        /\ procs' = [procs EXCEPT ![p] =
               [NoProc EXCEPT !.task = "job", !.job = j, !.repo = jobs[j].repo,
                              !.url = jobs[j].key,
                              !.pc = IF jobs[j].name = "clone" THEN "call Clone"
                                     ELSE IF jobs[j].name = "fetch" THEN "backgroundFetch"
                                     ELSE "generateAndUploadBundle"]]
        /\ UNCHANGED <<now, cacheVars, diskVars, pathVars, clones, repos, disk, periodic, strategySpools, repoSpools,
                       spools, upstream>>

\* the function of the job returns: the worker is free again
JobDone(p) ==
    /\ jobs' = [jobs EXCEPT ![procs[p].job].status = "done"]
    /\ procs' = [procs EXCEPT ![p] = NoProc]

\* the path suffixes of the artefact requests
Bundle == "/bundle"
Snapshot == "/snapshot"

\* isReceivePack of handleRequest: the query or the path says git-receive-pack
IsReceivePack(req) == req.service = "git-receive-pack" \/ req.path = ReceivePack

HandleRequestPushThroughMirror(p, req, url) ==
    /\ procs[p] = NoProc
    /\ procs' = [procs EXCEPT ![p] =
           [NoProc EXCEPT !.task = "request", !.req = req, !.url = url,
                          !.pc = IF req.path \in {Bundle, Snapshot}
                                 THEN "serveCachedArtifact"
                                 ELSE "call GetOrCreate"]]
    /\ UNCHANGED <<now, cacheVars, diskVars, pathVars, clones, repos, disk, strategyVars>>

\* Strategy.handleRequest up to the call of GetOrCreate: a request for the bundle or
\* the snapshot is served from the cache, a push goes to upstream
HandleRequest(p, req, url) ==
    /\ procs[p] = NoProc
    /\ procs' = [procs EXCEPT ![p] =
           [NoProc EXCEPT !.task = "request", !.req = req, !.url = url,
                          !.pc = IF req.path \in {Bundle, Snapshot}
                                 THEN "serveCachedArtifact"
                                 ELSE IF IsReceivePack(req) THEN "forwardToUpstream"
                                 ELSE "call GetOrCreate"]]
    /\ UNCHANGED <<now, cacheVars, diskVars, pathVars, clones, repos, disk, strategyVars>>

\* the string whose cache.NewKey is the key of an artefact of a repository
ArtifactKey(url, artifact) == artifact \o " of " \o url

\* Strategy.serveCachedArtifact: the artefact is read from the cache, 404 without it
ServeCachedArtifact(p) ==
    LET res == OpenResult(1, ArtifactKey(procs[p].url, procs[p].req.path))
    IN  /\ procs[p].pc = "serveCachedArtifact"
        /\ procs' = [procs EXCEPT ![p].pc = "served",
                                  ![p].sent = IF res.err = NilErr THEN <<200>> \o res.data
                                              ELSE <<404>>]
        /\ UNCHANGED <<now, cacheVars, diskVars, pathVars, clones, repos, disk, strategyVars>>

\* Strategy.handleRequest, the switch on repo.State(): a ready repository is served
\* from the mirror, for an empty one a clone job is submitted, and the request
\* goes to serveWithSpool
HandleRequestState(p) ==
    LET r == procs[p].ret
        state == State(r)
    IN  /\ procs[p].task = "request"
        /\ procs[p].pc = "ret GetOrCreate"
        /\ IF state = StateReady
           THEN /\ procs' = [procs EXCEPT ![p].saw = state, ![p].repo = r,
                        ![p].pc = IF procs[p].req.path = InfoRefs
                                  THEN "call EnsureRefsUpToDate"
                                  ELSE "ret EnsureRefsUpToDate"]
                /\ UNCHANGED jobs
           ELSE /\ procs' = [procs EXCEPT ![p].saw = state, ![p].repo = r,
                                          ![p].pc = "serveWithSpool"]
                /\ jobs' = IF state = StateEmpty THEN Submit(repos[r].url, "clone", r)
                           ELSE jobs
        /\ UNCHANGED <<now, cacheVars, diskVars, pathVars, clones, repos, disk, periodic, strategySpools, repoSpools,
                       spools, upstream>>

\* what git http-backend answers from the mirror
BackendResponse == <<200, "mirror">>

\* Strategy.handleRequest on a ready repository, after ensureRefsUpToDate:
\* maybeBackgroundFetch and serveFromBackend
ServeReady(p) ==
    LET r == procs[p].repo
    IN  /\ procs[p].task = "request"
        /\ procs[p].pc = "ret EnsureRefsUpToDate"
        /\ jobs' = IF NeedsFetch(r, FetchInterval) THEN Submit(repos[r].url, "fetch", r)
                   ELSE jobs
        /\ procs' = [procs EXCEPT ![p].pc = "served", ![p].sent = BackendResponse]
        /\ UNCHANGED <<now, cacheVars, diskVars, pathVars, clones, repos, disk, periodic, strategySpools, repoSpools,
                       spools, upstream>>

\* Strategy.getOrCreateRepoSpools, under spoolsMu: the table of the URL, and the
\* tables after it was created when missing
GetOrCreateRepoSpools(url) ==
    IF strategySpools[url] # 0
    THEN [rp |-> strategySpools[url], tables |-> repoSpools]
    ELSE [rp |-> Len(repoSpools) + 1, tables |-> Append(repoSpools, NewRepoSpools(url))]

\* Strategy.serveWithSpool up to getOrCreateRepoSpools: a request without a spool
\* key, or whose body cannot be read, goes to upstream
ServeWithSpool(p, readErr) ==
    LET key == SpoolKeyForRequest(procs[p].req)
        got == GetOrCreateRepoSpools(procs[p].url)
    IN  /\ procs[p].pc = "serveWithSpool"
        /\ readErr => /\ procs[p].req.path = UploadPack
                       /\ procs[p].req.method = "POST"
                       /\ procs[p].req.body # NoBody
        /\ IF readErr \/ key = <<>>
           THEN /\ procs' = [procs EXCEPT ![p].pc = "forwardToUpstream"]
                /\ UNCHANGED <<strategySpools, repoSpools>>
           ELSE /\ procs' = [procs EXCEPT ![p].pc = "rp.GetOrCreate", ![p].key = key,
                                          ![p].table = got.rp]
                /\ repoSpools' = got.tables
                /\ strategySpools' = [strategySpools EXCEPT ![procs[p].url] = got.rp]
        /\ UNCHANGED <<now, cacheVars, diskVars, pathVars, clones, repos, disk, periodic, jobs, spools, upstream>>

RepoSpoolsGetOrCreateAlwaysCreates(t, key) ==
    [spool |-> Len(spools) + 1, isWriter |-> TRUE,
     all |-> Append(spools, NewResponseSpool(t, key)),
     tables |-> [repoSpools EXCEPT ![t].spools[key] = Len(spools) + 1]]

\* RepoSpools.GetOrCreate: the first caller for a key of the table creates the spool
\* and is its writer, every later caller is given that spool to read
RepoSpoolsGetOrCreate(t, key) ==
    IF repoSpools[t].spools[key] # 0
    THEN [spool |-> repoSpools[t].spools[key], isWriter |-> FALSE, all |-> spools,
          tables |-> repoSpools]
    ELSE [spool |-> Len(spools) + 1, isWriter |-> TRUE,
          all |-> Append(spools, NewResponseSpool(t, key)),
          tables |-> [repoSpools EXCEPT ![t].spools[key] = Len(spools) + 1]]

\* Strategy.serveWithSpool, rp.GetOrCreate(key) and the branch on its result: on
\* an error (the spool cannot be created) the request goes to upstream, the writer
\* forwards through the tee, a reader goes on to look at the spool
ServeWithSpoolGetOrCreate(p, err) ==
    LET got == RepoSpoolsGetOrCreate(procs[p].table, procs[p].key)
    IN  /\ procs[p].pc = "rp.GetOrCreate"
        /\ err # NilErr => got.isWriter
        /\ IF err # NilErr
           THEN /\ procs' = [procs EXCEPT ![p].pc = "forwardToUpstream", ![p].err = err]
                /\ UNCHANGED <<repoSpools, spools>>
           ELSE /\ procs' = [procs EXCEPT ![p].spool = got.spool,
                                ![p].isWriter = got.isWriter,
                                ![p].sawRunning = got.all[got.spool].state = "writing",
                                ![p].pc = IF got.isWriter THEN "forwardToUpstream"
                                          ELSE "spool.Failed"]
                /\ repoSpools' = got.tables
                /\ spools' = got.all
        /\ UNCHANGED <<now, cacheVars, diskVars, pathVars, clones, repos, disk, periodic, jobs, strategySpools,
                       upstream>>

ErrSpoolCreate == "create spool file"
ErrSpoolFailed == "spool failed"
ErrSpoolRead == "spool read"

\* ResponseSpool.MarkComplete and MarkFailed: the terminal state is latched
MarkComplete(sp) == IF sp.state = "writing" THEN [sp EXCEPT !.state = "complete"] ELSE sp
MarkFailed(sp) == IF sp.state = "writing" THEN [sp EXCEPT !.state = "failed"] ELSE sp

\* SpoolTeeWriter, the spool side of WriteHeader and of Write: status and headers are
\* captured, bytes are appended; a write to the spool file that fails (ok is false)
\* marks the spool failed, and a spool no longer written to is left alone
TeeWriteHeader(sp, status, ok) ==
    IF sp.state # "writing" THEN sp
    ELSE IF ok THEN [sp EXCEPT !.status = status] ELSE MarkFailed(sp)

TeeWrite(sp, chunk, ok) ==
    IF sp.state # "writing" THEN sp
    ELSE IF ok THEN [sp EXCEPT !.data = Append(@, chunk)] ELSE MarkFailed(sp)

\* the body upstream answers a request with, in the chunks io.Copy moves
UpstreamPack(req) ==
    IF req.body = "want A" THEN <<"A1", "A2">>
    ELSE IF req.body = "want B" THEN <<"B1", "B2">>
    ELSE <<"refs">>

\* httpClient.Do fails, the answer arrives whole, or its body breaks off
UpstreamOutcomes == {"do failed", "ok", "body failed"}

\* status and body forwardToUpstream has to write for an outcome
UpstreamStatus(outcome) == IF outcome = "do failed" THEN 502 ELSE 200
UpstreamBodyOf(req, outcome) ==
    IF outcome = "do failed" THEN <<"upstream request failed">>
    ELSE IF outcome = "ok" THEN UpstreamPack(req)
    ELSE SubSeq(UpstreamPack(req), 1, Len(UpstreamPack(req)) - 1)

\* the job of the URL that runs now (0: none)
RunningJob(url) ==
    IF \E j \in JobIds : jobs[j].key = url /\ jobs[j].status = "running"
    THEN CHOOSE j \in JobIds : jobs[j].key = url /\ jobs[j].status = "running"
    ELSE 0

\* the request upstream receives from p, with what held when it was made
UpstreamRequest(p) ==
    [p |-> p, url |-> procs[p].url, req |-> procs[p].req, saw |-> procs[p].saw,
     key |-> procs[p].key, table |-> procs[p].table, spool |-> procs[p].spool,
     writer |-> procs[p].isWriter,
     job |-> RunningJob(procs[p].url),
     state |-> IF procs[p].repo = 0 THEN "" ELSE State(procs[p].repo)]

\* Strategy.forwardToUpstream: the request is made; the writer of a spool writes
\* status and headers through the tee and goes on to copy the body, every other
\* request gets the response written to its client
ForwardToUpstream(p, outcome, ok) ==
    LET status == UpstreamStatus(outcome)
        body == UpstreamBodyOf(procs[p].req, outcome)
        s == procs[p].spool
    IN  /\ procs[p].pc = "forwardToUpstream"
        /\ upstream' = Append(upstream, UpstreamRequest(p))
        /\ IF procs[p].isWriter
           THEN /\ spools' = [spools EXCEPT ![s] = TeeWriteHeader(@, status, ok)]
                /\ procs' = [procs EXCEPT ![p].pc = "io.Copy", ![p].sent = <<status>>,
                                          ![p].body = body]
           ELSE /\ ok
                /\ procs' = [procs EXCEPT ![p].pc = "served",
                                          ![p].sent = <<status>> \o body]
                /\ UNCHANGED spools
        /\ UNCHANGED <<now, cacheVars, diskVars, pathVars, clones, repos, disk, periodic, jobs, strategySpools,
                       repoSpools>>

ForwardCopyPastTheTee(p, ok) ==
    /\ procs[p].pc = "io.Copy"
    /\ IF procs[p].body = <<>>
       THEN /\ ok
            /\ procs' = [procs EXCEPT ![p].pc = "spool.MarkComplete"]
       ELSE procs' = [procs EXCEPT ![p].sent = Append(@, Head(procs[p].body)),
                                   ![p].body = Tail(@)]
    /\ UNCHANGED <<now, cacheVars, diskVars, pathVars, clones, repos, disk, strategyVars>>

\* io.Copy of forwardToUpstream into the tee, one chunk: to the client and to the spool
ForwardCopy(p, ok) ==
    LET s == procs[p].spool
    IN  /\ procs[p].pc = "io.Copy"
        /\ IF procs[p].body = <<>>
           THEN /\ ok
                /\ procs' = [procs EXCEPT ![p].pc = "spool.MarkComplete"]
                /\ UNCHANGED spools
           ELSE /\ procs' = [procs EXCEPT ![p].sent = Append(@, Head(procs[p].body)),
                                          ![p].body = Tail(@)]
                /\ spools' = [spools EXCEPT ![s] = TeeWrite(@, Head(procs[p].body), ok)]
        /\ UNCHANGED <<now, cacheVars, diskVars, pathVars, clones, repos, disk, periodic, jobs, strategySpools,
                       repoSpools, upstream>>

ServeWithSpoolWithoutMarkComplete(p) ==
    /\ procs[p].pc = "spool.MarkComplete"
    /\ procs' = [procs EXCEPT ![p].pc = "served"]
    /\ UNCHANGED <<now, cacheVars, diskVars, pathVars, clones, repos, disk, strategyVars>>

\* Strategy.serveWithSpool, the writer after forwardToUpstream returned
ServeWithSpoolMarkComplete(p) ==
    /\ procs[p].pc = "spool.MarkComplete"
    /\ spools' = [spools EXCEPT ![procs[p].spool] = MarkComplete(@)]
    /\ procs' = [procs EXCEPT ![p].pc = "served"]
    /\ UNCHANGED <<now, cacheVars, diskVars, pathVars, clones, repos, disk, periodic, jobs, strategySpools,
                   repoSpools, upstream>>

ServeWithSpoolFailedAlwaysForwards(p) ==
    /\ procs[p].pc = "spool.Failed"
    /\ procs' = [procs EXCEPT ![p].pc = "forwardToUpstream"]
    /\ UNCHANGED <<now, cacheVars, diskVars, pathVars, clones, repos, disk, strategyVars>>

\* Strategy.serveWithSpool, a reader: a spool that has failed is not read
ServeWithSpoolFailed(p) ==
    /\ procs[p].pc = "spool.Failed"
    /\ procs' = [procs EXCEPT ![p].pc = IF spools[procs[p].spool].state = "failed"
                                        THEN "forwardToUpstream" ELSE "ServeTo"]
    /\ UNCHANGED <<now, cacheVars, diskVars, pathVars, clones, repos, disk, strategyVars>>

\* ResponseSpool.ServeTo, one step: it waits for status and headers and writes them,
\* then writes the bytes as they land; it returns ErrSpoolFailed when the spool
\* failed before the headers were known, nil at the end of a complete spool, and a
\* read error when the spool failed under it
SpoolServeTo(p) ==
    LET sp == spools[procs[p].spool]
        n == Len(procs[p].sent) - 1
    IN  /\ procs[p].pc = "ServeTo"
        /\ IF procs[p].sent = <<>>
           THEN \/ /\ sp.status # 0
                   /\ procs' = [procs EXCEPT ![p].sent = <<sp.status>>]
                \/ /\ sp.status = 0
                   /\ sp.state = "failed"
                   /\ procs' = [procs EXCEPT ![p].pc = "ret ServeTo",
                                             ![p].err = ErrSpoolFailed]
           ELSE \/ /\ n < Len(sp.data)
                   /\ procs' = [procs EXCEPT ![p].sent = Append(@, sp.data[n + 1])]
                \/ /\ n = Len(sp.data)
                   /\ sp.state # "writing"
                   /\ procs' = [procs EXCEPT ![p].pc = "ret ServeTo",
                                   ![p].err = IF sp.state = "complete" THEN NilErr
                                              ELSE ErrSpoolRead]
        /\ UNCHANGED <<now, cacheVars, diskVars, pathVars, clones, repos, disk, strategyVars>>

ServeWithSpoolServedWithoutFallback(p) ==
    /\ procs[p].pc = "ret ServeTo"
    /\ procs' = [procs EXCEPT ![p].pc = "served"]
    /\ UNCHANGED <<now, cacheVars, diskVars, pathVars, clones, repos, disk, strategyVars>>

\* Strategy.serveWithSpool, a reader after ServeTo returned: on ErrSpoolFailed the
\* request goes to upstream, any other error is logged
ServeWithSpoolServed(p) ==
    /\ procs[p].pc = "ret ServeTo"
    /\ procs' = [procs EXCEPT ![p].pc = IF procs[p].err = ErrSpoolFailed
                                        THEN "forwardToUpstream" ELSE "served"]
    /\ UNCHANGED <<now, cacheVars, diskVars, pathVars, clones, repos, disk, strategyVars>>

\* Strategy.startClone after repo.Clone returned, cleanupSpools under spoolsMu: the
\* table of the URL is taken out of the map
StartCloneCleanup(p) ==
    /\ procs[p].task = "job"
    /\ procs[p].pc = "ret Clone"
    /\ strategySpools' = [strategySpools EXCEPT ![procs[p].url] = 0]
    /\ procs' = [procs EXCEPT ![p].pc = "rp.Close", ![p].table = strategySpools[procs[p].url]]
    /\ UNCHANGED <<now, cacheVars, diskVars, pathVars, clones, repos, disk, periodic, jobs, repoSpools, spools,
                   upstream>>

\* RepoSpools.Close: the spool files of the table are cleaned up
RepoSpoolsClose(t) == [repoSpools EXCEPT ![t].closed = TRUE]

\* Strategy.cleanupSpools, rp.Close() outside the lock, and the rest of startClone:
\* when Clone returned nil the bundle job of the repository is scheduled
\* (SnapshotInterval is 0: no snapshot jobs)
StartCloneReturn(p) ==
    /\ procs[p].pc = "rp.Close"
    /\ repoSpools' = IF procs[p].table # 0 THEN RepoSpoolsClose(procs[p].table)
                     ELSE repoSpools
    /\ periodic' = IF procs[p].err = NilErr /\ BundleInterval > 0
                   THEN SubmitPeriodicJob(procs[p].url, "bundle-periodic", BundleInterval,
                                          procs[p].repo)
                   ELSE periodic
    /\ JobDone(p)
    /\ UNCHANGED <<now, cacheVars, diskVars, pathVars, clones, repos, disk, strategySpools, spools, upstream>>

BackgroundFetchWithoutRecheck(p) ==
    /\ procs[p].pc = "backgroundFetch"
    /\ procs' = [procs EXCEPT ![p].pc = "call Fetch"]
    /\ UNCHANGED jobs
    /\ UNCHANGED <<now, cacheVars, diskVars, pathVars, clones, repos, disk, periodic, strategySpools, repoSpools,
                   spools, upstream>>

\* Strategy.backgroundFetch: nothing to do when the repository was fetched meanwhile
BackgroundFetch(p) ==
    /\ procs[p].pc = "backgroundFetch"
    /\ IF NeedsFetch(procs[p].repo, FetchInterval)
       THEN /\ procs' = [procs EXCEPT ![p].pc = "call Fetch"]
            /\ UNCHANGED jobs
       ELSE JobDone(p)
    /\ UNCHANGED <<now, cacheVars, diskVars, pathVars, clones, repos, disk, periodic, strategySpools, repoSpools,
                   spools, upstream>>

\* Strategy.backgroundFetch after repo.Fetch returned: an error is logged
BackgroundFetchReturn(p) ==
    /\ procs[p].task = "job"
    /\ procs[p].pc = "ret Fetch"
    /\ JobDone(p)
    /\ UNCHANGED <<now, cacheVars, diskVars, pathVars, clones, repos, disk, periodic, strategySpools, repoSpools,
                   spools, upstream>>

\* the timer of a periodic job fires: the job is submitted like any other
PeriodicTick(i) ==
    /\ periodic[i].period > 0
    /\ now >= periodic[i].due
    /\ jobs' = Submit(periodic[i].key, periodic[i].name, periodic[i].repo)
    /\ periodic' = [periodic EXCEPT ![i].due = @ + periodic[i].period, ![i].ticks = @ + 1]
    /\ UNCHANGED <<now, cacheVars, diskVars, pathVars, managerVars, strategySpools, repoSpools, spools,
                   upstream>>

\* the string whose cache.NewKey is the key of the bundle of a repository
BundleKey(url) == ArtifactKey(url, Bundle)

\* the headers generateAndUploadBundle passes to Create
BundleHeaders == HeaderSet(EmptyMap, "Content-Type", "application/x-git-bundle")

\* 7 * 24 * time.Hour, in clock ticks
BundleTTL == 7

\* Strategy.generateAndUploadBundle up to WithReadLock: s.cache.Create
GenerateAndUploadBundle(p, w) ==
    /\ procs[p].task = "job"
    /\ procs[p].pc = "generateAndUploadBundle"
    /\ ~panicked
    /\ FreeSlot(w)
    /\ writers' = [writers EXCEPT
                      ![w] = NewWriter(1, BundleKey(procs[p].url), BundleHeaders, BundleTTL)]
    /\ procs' = [procs EXCEPT ![p].pc = "WithReadLock", ![p].w = w]
    /\ UNCHANGED <<now, caches, entries, currentSize, fetch, panicked, clones, repos, disk,
                   strategyVars, diskVars, pathVars>>

\* git bundle create under the read lock of the repository, its stdout written to
\* the cache writer
GitBundleCreate(p, outcome) ==
    LET w == procs[p].w
    IN  /\ procs[p].pc = "WithReadLock"
        /\ repos[procs[p].repo].mu = 0
        /\ IF outcome = "ok"
           THEN WriterWrite(w, "git bundle")
           ELSE UNCHANGED <<now, caches, entries, currentSize, writers, panicked>>
        /\ procs' = [procs EXCEPT ![p].pc = "ret WithReadLock",
                                  ![p].err = IF outcome = "ok" THEN NilErr ELSE ErrGit]
        /\ UNCHANGED <<fetch, clones, repos, disk, strategyVars, diskVars, pathVars>>

\* Strategy.generateAndUploadBundle returns: the deferred w.Close() runs, whatever
\* git bundle returned
GenerateAndUploadBundleReturn(p) ==
    /\ procs[p].pc = "ret WithReadLock"
    /\ ~panicked
    /\ WriterClose(procs[p].w)
    /\ JobDone(p)
    /\ UNCHANGED <<fetch, clones, repos, disk, periodic, strategySpools, repoSpools, spools,
                   upstream, diskVars, pathVars>>

\* the handler of a request has returned: its goroutine serves the next request
HandlerReturn(p) ==
    /\ procs[p].task = "request"
    /\ procs[p].pc = "served"
    /\ procs' = [procs EXCEPT ![p] = NoProc]
    /\ UNCHANGED <<now, cacheVars, diskVars, pathVars, clones, repos, disk, strategyVars>>

----------------------------------------------------------------------------
(* Specification of the git strategy *)

\* the requests a client sends: the first always wants A, the second A or B
RequestsOf(p) ==
    {req \in Requests : /\ req.path = UploadPack
                         /\ req.method = "POST"
                         /\ p = 1 => req.body = "want A"}

SpoolErrors == {NilErr, ErrSpoolCreate}

\* git-upload-pack requests for one repository that is not yet mirrored, served
\* while its clone job waits in the scheduler's queue and while git clone runs
NextSpool ==
    \/ \E p \in Requesters, url \in URLs :
          \E req \in RequestsOf(p) : HandleRequest(p, req, url)
    \/ \E p \in Requesters :
          procs[p].pc = "call GetOrCreate" /\ GetOrCreateRLocked(p, procs[p].url)
    \/ \E p \in Requesters : GetOrCreateLocked(p)
    \/ \E p \in Requesters : HandleRequestState(p)
    \/ \E p \in Requesters, readErr \in BOOLEAN : ServeWithSpool(p, readErr)
    \/ \E p \in Requesters, err \in SpoolErrors : ServeWithSpoolGetOrCreate(p, err)
    \/ \E p \in Requesters, outcome \in UpstreamOutcomes, ok \in BOOLEAN :
          ForwardToUpstream(p, outcome, ok)
    \/ \E p \in Requesters, ok \in BOOLEAN : ForwardCopy(p, ok)
    \/ \E p \in Requesters : ServeWithSpoolMarkComplete(p)
    \/ \E p \in Requesters : ServeWithSpoolFailed(p)
    \/ \E p \in Requesters : SpoolServeTo(p)
    \/ \E p \in Requesters : ServeWithSpoolServed(p)
    \/ \E p \in Workers, url \in URLs : RunJob(p, url)
    \/ \E p \in Workers : procs[p].pc = "call Clone" /\ CloneBegin(p, procs[p].repo)

SpecSpool == Init /\ [][NextSpool]_vars

\* two identical git-upload-pack requests for a repository that is not yet mirrored
\* and the clone jobs they submit, run to their end by the scheduler; upstream
\* answers and the spool files can be written
NextStrategy ==
    \/ \E p \in Requesters, url \in URLs :
          \E req \in RequestsOf(1) : HandleRequest(p, req, url)
    \/ \E p \in Requesters :
          procs[p].pc = "call GetOrCreate" /\ GetOrCreateRLocked(p, procs[p].url)
    \/ \E p \in Requesters : GetOrCreateLocked(p)
    \/ \E p \in Requesters : HandleRequestState(p)
    \/ \E p \in Requesters : ServeReady(p)
    \/ \E p \in Requesters : ServeWithSpool(p, FALSE)
    \/ \E p \in Requesters : ServeWithSpoolGetOrCreate(p, NilErr)
    \/ \E p \in Requesters : ForwardToUpstream(p, "ok", TRUE)
    \/ \E p \in Requesters : ForwardCopy(p, TRUE)
    \/ \E p \in Requesters : ServeWithSpoolMarkComplete(p)
    \/ \E p \in Requesters : ServeWithSpoolFailed(p)
    \/ \E p \in Requesters : SpoolServeTo(p)
    \/ \E p \in Requesters : ServeWithSpoolServed(p)
    \/ \E p \in Workers, url \in URLs : RunJob(p, url)
    \/ \E p \in Workers : procs[p].pc = "call Clone" /\ CloneBegin(p, procs[p].repo)
    \/ \E p \in Workers, outcome \in CloneOutcomes : ExecuteClone(p, outcome)
    \/ \E p \in Workers : CloneEnd(p)
    \/ \E p \in Workers : StartCloneCleanup(p)
    \/ \E p \in Workers : StartCloneReturn(p)

SpecStrategy == Init /\ [][NextStrategy]_vars

----------------------------------------------------------------------------
(* Properties of the git strategy *)

\* C15: a Clone that fails puts the Repository back to empty; a request that then
\* finds it empty submits a new clone job at the end of the queue; and the Clone of a
\* job that finds the Repository empty runs git clone again.
C15_FailedCloneIsRetried ==
    [][\A p \in Procs :
          /\ Leaves(p, "Clone end") /\ procs[p].err # NilErr
                => State(procs[p].repo)' = StateEmpty
          /\ procs[p].task = "request" /\ Leaves(p, "ret GetOrCreate")
                /\ State(procs[p].ret) = StateEmpty
                => /\ Len(jobs') = Len(jobs) + 1
                   /\ jobs'[Len(jobs')].name = "clone"
                   /\ jobs'[Len(jobs')].repo = procs[p].ret
                   /\ jobs'[Len(jobs')].status = "queued"
          /\ procs[p].task = "job" /\ Leaves(p, "call Clone")
                /\ State(procs[p].repo) = StateEmpty
                => procs'[p].pc = "executeClone"]_vars

\* the clone job of a request made after an earlier clone job ended runs git clone
C15_Witness ==
    \E p \in Workers :
        /\ procs[p].pc = "executeClone"
        /\ jobs[procs[p].job].after >= 1
        /\ \E q \in Requesters : procs[q].saw = StateEmpty /\ procs[q].pc = "served"

\* the requests that were given a spool by GetOrCreate(k) of table t
Callers(t, k) ==
    {p \in Requesters : procs[p].table = t /\ procs[p].key = k /\ procs[p].spool # 0}

\* C17: of the requests that called GetOrCreate with the same key on one table and
\* were given a spool, exactly one was told is_writer = true and all were given the
\* same spool.
C17_OneWriterPerKey ==
    \A t \in TableIds, k \in SpoolKeys :
        Callers(t, k) # {} =>
            /\ Cardinality({p \in Callers(t, k) : procs[p].isWriter}) = 1
            /\ \A p, q \in Callers(t, k) : procs[p].spool = procs[q].spool

\* two requests with the same key share a table, one of them writes
C17_Witness ==
    \E t \in TableIds, k \in SpoolKeys :
        \E p, q \in Callers(t, k) : procs[p].isWriter /\ ~procs[q].isWriter

\* a is b or the beginning of b
IsPrefix(a, b) == Len(a) <= Len(b) /\ SubSeq(b, 1, Len(a)) = a

\* the readers of spool s, and the request that writes it
Readers(s) == {p \in Requesters : procs[p].spool = s /\ ~procs[p].isWriter}
WriterOf(s) == CHOOSE p \in Requesters : procs[p].spool = s /\ procs[p].isWriter

\* C18: once a spool is complete, what any of its readers has been served is the
\* beginning of what the writer wrote (status and bytes, in order), and a reader that
\* has been served to the end has been served exactly that.
C18_ReadersServedExactlyS ==
    \A s \in SpoolIds :
        spools[s].state = "complete" =>
            \A p \in Readers(s) :
                /\ IsPrefix(procs[p].sent, procs[WriterOf(s)].sent)
                /\ procs[p].pc = "served" => procs[p].sent = procs[WriterOf(s)].sent

\* a reader that attached while the spool was written has been served status and
\* two chunks, the whole of what the writer wrote
C18_Witness ==
    \E s \in SpoolIds :
        /\ spools[s].state = "complete"
        /\ \E p \in Readers(s) :
              /\ procs[p].sawRunning
              /\ procs[p].pc = "served"
              /\ Len(procs[p].sent) = 3
              /\ procs[p].sent = procs[WriterOf(s)].sent

\* the requests upstream received from requests with key k that were given table t
UpstreamOf(t, k) ==
    {i \in DOMAIN upstream : upstream[i].table = t /\ upstream[i].key = k}

\* the requests upstream received while the repository was cloning from requests with
\* key k: that of a spool's writer, and those of requests that found it cloning
UpstreamWhileCloning(url, k) ==
    {i \in DOMAIN upstream : /\ upstream[i].url = url
                             /\ upstream[i].key = k
                             /\ upstream[i].state = StateCloning
                             /\ upstream[i].writer \/ upstream[i].saw = StateCloning}

\* C19 as stated: the git-upload-pack requests with one spool key that are served
\* while the repository is cloning cause at most one request to upstream.
C19_ExactlyOneUpstreamRequest ==
    \A url \in URLs, k \in SpoolKeys : Cardinality(UpstreamWhileCloning(url, k)) <= 1

\* C19, amended: of the requests with one spool key that were given the same spool
\* table, at most one makes its upstream request as the writer of the spool; every
\* other upstream request is made by a request whose spool could not be created or
\* has failed; and whenever one of them has been served, the writer's request to
\* upstream was made.
C19_OneUpstreamRequestPerSpool ==
    \A t \in TableIds, k \in SpoolKeys :
        /\ Cardinality({i \in UpstreamOf(t, k) : upstream[i].writer}) <= 1
        /\ \A i \in UpstreamOf(t, k) :
              ~upstream[i].writer =>
                  \/ upstream[i].spool = 0
                  \/ spools[upstream[i].spool].state = "failed"
        /\ \A p \in Callers(t, k) :
              procs[p].pc = "served" => \E i \in UpstreamOf(t, k) : upstream[i].writer

\* while the repository is cloning, a request that found it cloning has been served
\* the whole response from the spool of another, and upstream got one request
C19_Witness ==
    \E t \in TableIds, k \in SpoolKeys :
        /\ Cardinality(UpstreamOf(t, k)) = 1
        /\ \A i \in UpstreamOf(t, k) : upstream[i].state = StateCloning
        /\ \E p, q \in Callers(t, k) :
              /\ procs[p].isWriter /\ procs[p].pc = "served"
              /\ ~procs[q].isWriter /\ procs[q].pc = "served"
              /\ procs[q].saw = StateCloning
              /\ procs[q].sent = procs[p].sent
              /\ Len(procs[q].sent) = 3

\* what the client of a request gets from forwardToUpstream alone
DirectResponses(req) ==
    {<<UpstreamStatus(outcome)>> \o UpstreamBodyOf(req, outcome) :
        outcome \in UpstreamOutcomes}

\* C20: of a spool that failed before status and headers were known, no reader has
\* anything written to its client while it looks at the spool, ServeTo returns
\* ErrSpoolFailed to it, and a reader that has been served made its own request to
\* upstream and was sent that response and nothing else.
C20_FailedSpoolFallsBack ==
    \A s \in SpoolIds :
        spools[s].state = "failed" /\ spools[s].status = 0 =>
            \A p \in Readers(s) :
                /\ procs[p].pc \in {"spool.Failed", "ServeTo", "ret ServeTo",
                                    "forwardToUpstream"} => procs[p].sent = <<>>
                /\ procs[p].pc = "ret ServeTo" => procs[p].err = ErrSpoolFailed
                /\ procs[p].pc = "served" =>
                      /\ Cardinality({i \in DOMAIN upstream : upstream[i].p = p}) = 1
                      /\ procs[p].sent \in DirectResponses(procs[p].req)

\* a reader that ServeTo gave ErrSpoolFailed has been served by its own request
C20_Witness ==
    \E s \in SpoolIds :
        /\ spools[s].state = "failed"
        /\ spools[s].status = 0
        /\ \E p \in Readers(s) :
              /\ procs[p].pc = "served"
              /\ procs[p].err = ErrSpoolFailed
              /\ \E i \in DOMAIN upstream : upstream[i].p = p /\ ~upstream[i].writer

\* SpecSpool with the wake-up of the readers: a reader for which ServeTo has something
\* to do (status, bytes or a terminal state to see) does it in the end
SpecSpoolFair == SpecSpool /\ \A p \in Requesters : WF_vars(SpoolServeTo(p))

\* the handler of the request that writes spool s has returned
WriterDone(s) ==
    \E p \in Requesters : procs[p].spool = s /\ procs[p].isWriter /\ procs[p].pc = "served"

\* C21: once the handler of the writer has returned the spool is complete or failed,
\* and every reader that is in ServeTo then returns from it.
C21_ReadersReturn ==
    /\ [](\A s \in SpoolIds : WriterDone(s) => spools[s].state \in {"complete", "failed"})
    /\ \A p \in Requesters :
          (procs[p].pc = "ServeTo" /\ WriterDone(procs[p].spool))
              ~> (procs[p].pc # "ServeTo")

\* a reader that attached while the spool was written has returned from ServeTo after
\* the writer's handler did
C21_Witness ==
    \E p \in Requesters :
        /\ procs[p].pc = "ret ServeTo"
        /\ ~procs[p].isWriter
        /\ procs[p].sawRunning
        /\ WriterDone(procs[p].spool)

----------------------------------------------------------------------------
(* The scheduler under the git strategy *)

\* the jobs a run of the scheduler specification submits, and the requests it
\* forwards to upstream
MaxJobs == 3
MaxForwards == 2

\* the goroutines of the scheduler's worker pool
Pool == {2, 3}

\* the request of the scheduler specification: a file of the repository, which has
\* no spool key
GetHead == [path |-> "/HEAD", method |-> "GET", body |-> NoBody, service |-> ""]

\* the writer slot Create hands out
NextSlot(w) == FreeSlot(w) /\ \A v \in WriterIds : FreeSlot(v) => w <= v

\* requests for one repository, served one after the other while the clock runs, and
\* a pool of two workers that runs the clone, fetch and bundle jobs they cause; git
\* clone, git fetch and git bundle succeed
NextScheduler ==
    \/ Tick
    \/ \E url \in URLs :
          /\ Len(jobs) < MaxJobs /\ Len(upstream) < MaxForwards
          /\ HandleRequest(1, GetHead, url)
    \/ procs[1].pc = "call GetOrCreate" /\ GetOrCreateRLocked(1, procs[1].url)
    \/ GetOrCreateLocked(1)
    \/ HandleRequestState(1)
    \/ ServeReady(1)
    \/ ServeWithSpool(1, FALSE)
    \/ ForwardToUpstream(1, "ok", TRUE)
    \/ HandlerReturn(1)
    \/ \E i \in DOMAIN periodic : Len(jobs) < MaxJobs /\ PeriodicTick(i)
    \/ \E p \in Pool, url \in URLs : RunJob(p, url)
    \/ \E p \in Pool : procs[p].pc = "call Clone" /\ CloneBegin(p, procs[p].repo)
    \/ \E p \in Pool : ExecuteClone(p, "ok")
    \/ \E p \in Pool : CloneEnd(p)
    \/ \E p \in Pool : StartCloneCleanup(p)
    \/ \E p \in Pool : StartCloneReturn(p)
    \/ \E p \in Pool : BackgroundFetch(p)
    \/ \E p \in Pool :
          procs[p].pc = "call Fetch" /\ RepositoryFetchSelect(p, procs[p].repo)
    \/ \E p \in Pool : RepositoryFetchLock(p)
    \/ \E p \in Pool : GitFetch(p, NilErr)
    \/ \E p \in Pool : BackgroundFetchReturn(p)
    \/ \E p \in Pool, w \in WriterIds : NextSlot(w) /\ GenerateAndUploadBundle(p, w)
    \/ \E p \in Pool : GitBundleCreate(p, "ok")
    \/ \E p \in Pool : GenerateAndUploadBundleReturn(p)

SpecScheduler == Init /\ [][NextScheduler]_vars

\* C22: the jobs of one key run one at a time and in the order of their submission:
\* when a job has been started, every job submitted before it for the same key has
\* ended.
C22_PerKeyFIFO ==
    \A i, j \in JobIds :
        (i < j /\ jobs[i].key = jobs[j].key /\ jobs[j].status # "queued")
            => jobs[i].status = "done"

\* a job runs, the next one of its key waits although a worker of the pool is free
C22_Witness ==
    \E i, j \in JobIds :
        /\ i < j /\ jobs[i].key = jobs[j].key
        /\ jobs[i].status = "running" /\ jobs[j].status = "queued"
        /\ jobs[i].name # jobs[j].name
        /\ \E p \in Pool : procs[p] = NoProc

\* the jobs submitted so far for a key under a name
Submitted(repoKey, name) == {j \in JobIds : jobs[j].key = repoKey /\ jobs[j].name = name}

\* startClone of worker p returns in this step, after Clone returned nil
SchedulesBundleJobs(p) ==
    procs[p].pc = "rp.Close" /\ procs[p].err = NilErr /\ procs'[p] = NoProc

\* C23: a key and name have at most one periodic registration; a call of
\* SubmitPeriodicJob for a pair that is registered changes nothing; and the job has
\* been submitted at most once per period that has passed since the registration.
C23_RegisteredOnce ==
    /\ [](\A i, j \in DOMAIN periodic :
             (periodic[i].key = periodic[j].key /\ periodic[i].name = periodic[j].name)
                 => i = j)
    /\ [][\A p \in Pool :
             (SchedulesBundleJobs(p) /\ Registrations(procs[p].url, "bundle-periodic") # {})
                 => periodic' = periodic]_vars
    /\ [](\A i \in DOMAIN periodic :
             Cardinality(Submitted(periodic[i].key, periodic[i].name)) * periodic[i].period
                 <= now - periodic[i].at)

\* two clone jobs of a repository have returned nil, so SubmitPeriodicJob was called
\* twice for its bundle job, and a bundle job submitted after that has run
C23_Witness ==
    \E i, j, k \in JobIds :
        /\ i < j /\ j < k
        /\ jobs[i].name = "clone" /\ jobs[j].name = "clone" /\ jobs[i].key = jobs[j].key
        /\ jobs[i].status = "done" /\ jobs[j].status = "done"
        /\ jobs[k].name = "bundle-periodic" /\ jobs[k].key = jobs[j].key
        /\ jobs[k].status = "done" /\ jobs[k].after >= 2
        /\ Cardinality(Registrations(jobs[k].key, "bundle-periodic")) = 1

----------------------------------------------------------------------------
(* Pushes *)

\* the requests of a client that pushes, and artefact requests with the same query
PushRequests ==
    [path : {ReceivePack}, method : {"POST"}, body : {"push"}, service : {""}]
        \cup [path : {InfoRefs, Bundle, Snapshot}, method : {"GET"}, body : {NoBody},
              service : {"git-receive-pack"}]

\* one client fetches from a repository that is not yet mirrored, so that it is
\* cloned, while another client pushes to it
NextPush ==
    \/ \E url \in URLs : \E req \in RequestsOf(1) : HandleRequest(1, req, url)
    \/ \E url \in URLs : \E req \in PushRequests : HandleRequest(2, req, url)
    \/ \E p \in Requesters :
          procs[p].pc = "call GetOrCreate" /\ GetOrCreateRLocked(p, procs[p].url)
    \/ \E p \in Requesters : GetOrCreateLocked(p)
    \/ \E p \in Requesters : HandleRequestState(p)
    \/ \E p \in Requesters : ServeCachedArtifact(p)
    \/ \E p \in Requesters : ServeWithSpool(p, FALSE)
    \/ \E p \in Requesters : ServeWithSpoolGetOrCreate(p, NilErr)
    \/ \E p \in Requesters, outcome \in UpstreamOutcomes : ForwardToUpstream(p, outcome, TRUE)
    \/ \E p \in Requesters : ForwardCopy(p, TRUE)
    \/ \E p \in Requesters : ServeWithSpoolMarkComplete(p)
    \/ \E p \in Workers, url \in URLs : RunJob(p, url)
    \/ \E p \in Workers : procs[p].pc = "call Clone" /\ CloneBegin(p, procs[p].repo)
    \/ \E p \in Workers, outcome \in CloneOutcomes : ExecuteClone(p, outcome)
    \/ \E p \in Workers : CloneEnd(p)
    \/ \E p \in Workers : StartCloneCleanup(p)
    \/ \E p \in Workers : StartCloneReturn(p)

SpecPush == Init /\ [][NextPush]_vars

\* a step of the handler of a request
Handles(p) == procs[p].task = "request" /\ procs'[p] # procs[p]

\* the handler of p has sent its request to upstream and written the answer to its client
Forwarded(p) ==
    /\ procs[p].pc = "forwardToUpstream"
    /\ procs'[p].pc = "served"
    /\ upstream' = Append(upstream, UpstreamRequest(p))
    /\ \E outcome \in UpstreamOutcomes :
          procs'[p].sent = <<UpstreamStatus(outcome)>> \o UpstreamBodyOf(procs[p].req, outcome)

\* what a push must leave alone: the cache, the repositories, the jobs and the spools
PushFrame ==
    UNCHANGED <<cacheVars, diskVars, pathVars, clones, repos, disk, jobs, periodic, strategySpools, repoSpools,
                spools>>

\* C24 as stated: every request that says git-receive-pack in its query or its path
\* is handled by sending it to upstream and changes nothing else.
C24_ReceivePackPassesThrough ==
    [][\A p \in Requesters :
          (Handles(p) /\ IsReceivePack(procs[p].req))
              => (Forwarded(p) /\ PushFrame)]_vars

\* C24, amended: the same for the requests whose path does not end in /bundle or
\* /snapshot.
C24_ReceivePackPassesThroughUnlessArtifact ==
    [][\A p \in Requesters :
          (/\ Handles(p) /\ IsReceivePack(procs[p].req)
           /\ procs[p].req.path \notin {Bundle, Snapshot})
              => (Forwarded(p) /\ PushFrame)]_vars

\* a push has been answered by upstream while the repository was being cloned for
\* the other client
C24_Witness ==
    /\ procs[2].pc = "served" /\ IsReceivePack(procs[2].req)
    /\ procs[2].req.path = InfoRefs
    /\ \E i \in DOMAIN upstream : upstream[i].p = 2 /\ upstream[i].job # 0
    /\ \E r \in DOMAIN repos : State(r) = StateCloning

----------------------------------------------------------------------------
(* cache.Fetch: hits and responses that are not cached *)

\* the Fetch in flight has streamed the whole upstream body and ends without an error
FetchCompletes ==
    /\ fetch.pc = "copy" /\ fetch.read = Len(UpstreamBody)
    /\ fetch'.pc = "idle" /\ fetch'.pipeErr = NilErr

\* the entry stored under the key of the fetched URL, NotFound when there is none
FetchEntry(c) == LookupIgnoringExpiry(c, FetchKey)

\* C25: a Fetch that has streamed a 200 response to its end has stored the body and
\* the headers under the key of the URL, and a Fetch made while an entry of the key is
\* stored and not expired returns a 200 response with the headers and the body of
\* the entry and does not go to upstream.
C25_HitServedFromCache ==
    [][/\ FetchCompletes =>
             /\ FetchEntry(fetch.cache)'.err = NilErr
             /\ FetchEntry(fetch.cache)'.data = UpstreamBody
             /\ ContainsHeaders(FetchEntry(fetch.cache)'.headers, UpstreamHeaders)
       /\ \A c \in CacheIds :
             (/\ fetch.pc = "idle" /\ fetch'.pc # "copy" /\ fetch' # fetch
              /\ fetch'.cache = c /\ OpenResult(c, FetchKey).err = NilErr)
                 => /\ fetch'.pc = "idle"
                    /\ fetch'.resp = "cached 200"
                    /\ fetch'.body = OpenResult(c, FetchKey).data
                    /\ fetch'.headers = OpenResult(c, FetchKey).headers]_vars

\* a Fetch was answered from the cache with the body an earlier Fetch had streamed
\* from upstream and stored
C25_Witness ==
    /\ fetch.pc = "idle" /\ fetch.resp = "cached 200"
    /\ fetch.body = UpstreamBody
    /\ writers[2].st = "closed" /\ writers[2].err = NilErr
    /\ writers[2].written = UpstreamBody
    /\ now > writers[2].createdAt

\* the answers of upstream that are not a 200
NotOK == {"upstream 404", "upstream 500"}

\* C26: when upstream answers with a status other than 200, Fetch returns that
\* response and leaves the cache as it was: no writer is created, no entry stored.
C26_NotOKIsNotCached ==
    [][(fetch.pc = "do" /\ fetch'.pc = "idle")
          => /\ fetch'.resp \in NotOK \cup {"502 Bad Gateway"}
             /\ UNCHANGED <<entries, currentSize, writers>>
             /\ OpenResult(fetch.cache, FetchKey)' = OpenResult(fetch.cache, FetchKey)]_vars

\* a 404 of upstream was returned while nothing is stored under the key
C26_Witness ==
    /\ fetch.pc = "idle" /\ fetch.resp = "upstream 404"
    /\ FetchEntry(fetch.cache).err = ErrNotExist
    /\ \A w \in WriterIds : writers[w].st = "none"

\* C33: a spool is marked complete only when it holds the whole response of upstream
\* to its request
C33_CompleteOnlyWhenCopiedInFull ==
    \A s \in SpoolIds :
        spools[s].state = "complete"
            => \E req \in Requests : /\ SpoolKeyForRequest(req) = spools[s].key
                                     /\ spools[s].data = UpstreamPack(req)

\* the state of the repository of a URL ("" when the manager has none)
StateOfURL(url) == IF clones[url] = 0 THEN "" ELSE State(clones[url])

\* startClone has still to call cleanupSpools for the URL
CleanupPending(url) ==
    \E p \in Procs : procs[p].task = "job" /\ procs[p].pc = "ret Clone" /\ procs[p].url = url

\* C32: a spool table and a spool are created only while the repository is empty or
\* cloning, and a ready repository whose clone job has cleaned up has no spool table
C32_SpoolsOnlyWhileCloning ==
    /\ [][\A url \in URLs :
              strategySpools'[url] \notin {0, strategySpools[url]}
                  => StateOfURL(url) \in {StateEmpty, StateCloning}]_vars
    /\ [][Len(spools') > Len(spools)
              => StateOfURL(repoSpools[spools'[Len(spools')].table].url)
                     \in {StateEmpty, StateCloning}]_vars
    /\ [](\A url \in URLs :
             (StateOfURL(url) = StateReady /\ ~CleanupPending(url))
                 => strategySpools[url] = 0)

----------------------------------------------------------------------------
(* Bundle jobs of one repository, with git bundle failing or not *)

BundleOutcomes == {"ok", "failed"}

\* one request that makes the repository be cloned, and the periodic bundle jobs that
\* the worker runs afterwards while the clock runs
NextBundle ==
    \/ Tick
    \/ \E url \in URLs : jobs = <<>> /\ upstream = <<>> /\ HandleRequest(1, GetHead, url)
    \/ procs[1].pc = "call GetOrCreate" /\ GetOrCreateRLocked(1, procs[1].url)
    \/ GetOrCreateLocked(1)
    \/ HandleRequestState(1)
    \/ ServeWithSpool(1, FALSE)
    \/ ForwardToUpstream(1, "ok", TRUE)
    \/ \E i \in DOMAIN periodic : Len(jobs) < MaxJobs /\ PeriodicTick(i)
    \/ \E url \in URLs : RunJob(2, url)
    \/ procs[2].pc = "call Clone" /\ CloneBegin(2, procs[2].repo)
    \/ ExecuteClone(2, "ok")
    \/ CloneEnd(2)
    \/ StartCloneCleanup(2)
    \/ StartCloneReturn(2)
    \/ \E w \in WriterIds : NextSlot(w) /\ GenerateAndUploadBundle(2, w)
    \/ \E outcome \in BundleOutcomes : GitBundleCreate(2, outcome)
    \/ GenerateAndUploadBundleReturn(2)

SpecBundle == Init /\ [][NextBundle]_vars

\* C34: when git bundle failed, the return of generateAndUploadBundle leaves what
\* Open of the bundle key returns as it was
C34_FailedBundlePublishesNothing ==
    [][\A p \in Procs :
          (Leaves(p, "ret WithReadLock") /\ procs[p].err # NilErr)
              => LookupIgnoringExpiry(1, BundleKey(procs[p].url))'
                     = LookupIgnoringExpiry(1, BundleKey(procs[p].url))]_vars

----------------------------------------------------------------------------
(* Background fetch jobs of a mirrored repository *)

\* requests for a repository whose mirror is on disk, served one after the other
\* while the clock runs, and the pool of two workers that runs the fetch jobs they
\* submit; git fetch succeeds or fails
NextBackground ==
    \/ Tick
    \/ \E url \in URLs : Len(jobs) < MaxJobs /\ HandleRequest(1, GetHead, url)
    \/ procs[1].pc = "call GetOrCreate" /\ GetOrCreateRLocked(1, procs[1].url)
    \/ GetOrCreateLocked(1)
    \/ HandleRequestState(1)
    \/ ServeReady(1)
    \/ HandlerReturn(1)
    \/ \E p \in Pool, url \in URLs : RunJob(p, url)
    \/ \E p \in Pool : BackgroundFetch(p)
    \/ \E p \in Pool :
          procs[p].pc = "call Fetch" /\ RepositoryFetchSelect(p, procs[p].repo)
    \/ \E p \in Pool : RepositoryFetchLock(p)
    \/ \E p \in Pool, err \in GitErrors : GitFetch(p, err)
    \/ \E p \in Pool : BackgroundFetchReturn(p)

\* the manager and the strategy after construction, the mirror of every URL on disk
InitMirrored ==
    /\ now = 0
    /\ caches = <<[namespace |-> "", entries |-> "map"]>>
    /\ entries = EmptyMap
    /\ currentSize = 0
    /\ writers = [w \in WriterIds |-> NoWriter]
    /\ fetch = NoFetch
    /\ panicked = FALSE
    /\ InitManager
    /\ InitStrategy
    /\ disk = URLs
    /\ InitDisk
    /\ InitPath

SpecBackground == InitMirrored /\ [][NextBackground]_vars

\* the fetch job of worker p goes on from the start of backgroundFetch less than
\* FetchInterval after a fetch of its repository has succeeded
StartsSoonAfterFetch(p) ==
    /\ Leaves(p, "backgroundFetch")
    /\ repos[procs[p].repo].lastFetch # ZeroTime
    /\ now - repos[procs[p].repo].lastFetch < FetchInterval

\* the job of worker p ends in this step and has left the repositories as they were
DoesNothing(p) ==
    /\ procs'[p] = NoProc
    /\ jobs' = [jobs EXCEPT ![procs[p].job].status = "done"]
    /\ repos' = repos

\* the fetch jobs i and j of one repository both ran a git fetch that succeeded
BothFetched(i, j) ==
    /\ i < j
    /\ jobs[i].name = "fetch" /\ jobs[j].name = "fetch" /\ jobs[i].key = jobs[j].key
    /\ jobs[i].fetchedAt # ZeroTime /\ jobs[j].fetchedAt # ZeroTime

\* C38 as stated: a fetch job that starts less than FetchInterval after a fetch of
\* its repository succeeded does nothing, and of the fetch jobs queued within one
\* FetchInterval at most one runs a git fetch that succeeds.
C38_OneFetchAmongJobsOfAnInterval ==
    /\ [][\A p \in Pool : StartsSoonAfterFetch(p) => DoesNothing(p)]_vars
    /\ [](\A i, j \in JobIds :
             BothFetched(i, j) => jobs[j].at - jobs[i].at >= FetchInterval)

\* C38: a fetch job that starts less than FetchInterval after a fetch of its
\* repository succeeded does nothing, so the git fetches of the fetch jobs of a
\* repository that succeed are at least FetchInterval apart, whenever the jobs
\* were queued.
C38_JobFetchesAnIntervalApart ==
    /\ [][\A p \in Pool : StartsSoonAfterFetch(p) => DoesNothing(p)]_vars
    /\ [](\A i, j \in JobIds :
             BothFetched(i, j) => jobs[j].fetchedAt - jobs[i].fetchedAt >= FetchInterval)

\* a fetch job has fetched, and the next fetch job of the repository has ended
\* within FetchInterval of that without a git fetch of its own
C38_Witness ==
    \E i, j \in JobIds :
        /\ i < j
        /\ jobs[i].name = "fetch" /\ jobs[j].name = "fetch" /\ jobs[i].key = jobs[j].key
        /\ jobs[i].fetchedAt # ZeroTime
        /\ jobs[j].status = "done" /\ jobs[j].fetchedAt = ZeroTime
        /\ now - jobs[i].fetchedAt < FetchInterval
        /\ repos[jobs[i].repo].lastFetch = jobs[i].fetchedAt

----------------------------------------------------------------------------
(* State calls during Clone and Fetch calls on the repositories *)

\* the goroutine that calls State
Observer == 3

NextState ==
    \/ \E url \in URLs : GetOrCreateRLocked(1, url)
    \/ GetOrCreateLocked(1)
    \/ \E p \in Cloners, r \in RepoIds : CloneBegin(p, r)
    \/ \E p \in Cloners, outcome \in CloneOutcomes : ExecuteClone(p, outcome)
    \/ \E p \in Cloners : CloneEnd(p)
    \/ \E r \in RepoIds : RepositoryFetchSelect(2, r)
    \/ RepositoryFetchLock(2)
    \/ \E err \in GitErrors : GitFetch(2, err)
    \/ \E r \in RepoIds : RepositoryState(Observer, r)

SpecState == InitMirrors /\ [][NextState]_vars

\* C28: while git clone runs for a Repository the cloning goroutine does not hold
\* r.mu, so a State call goes ahead unless a Fetch holds the lock, and the State call
\* returns cloning
C28_StateVisibleDuringClone ==
    /\ [](\A r \in RepoIds : Cloning(r) # {}
             => \/ ENABLED RepositoryState(Observer, r)
                \/ /\ repos[r].mu \in Procs
                   /\ procs[repos[r].mu].pc = "git fetch")
    /\ [][\A r \in RepoIds : (RepositoryState(Observer, r) /\ Cloning(r) # {})
             => procs'[Observer].saw = StateCloning]_vars

\* a State call has returned cloning while git clone runs for the Repository
C28_Witness ==
    /\ procs[Observer].done = "ret State"
    /\ procs[Observer].saw = StateCloning
    /\ \E r \in RepoIds : Cloning(r) # {}

----------------------------------------------------------------------------
(* Clone, Fetch, Repack and the read operations on the repositories *)

NextLocks ==
    \/ \E url \in URLs : GetOrCreateRLocked(1, url)
    \/ GetOrCreateLocked(1)
    \/ \E r \in RepoIds : CloneBegin(1, r)
    \/ \E outcome \in CloneOutcomes : ExecuteClone(1, outcome)
    \/ CloneEnd(1)
    \/ \E r \in RepoIds : RepositoryFetchSelect(2, r)
    \/ RepositoryFetchLock(2)
    \/ \E err \in GitErrors : GitFetch(2, err)
    \/ \E r \in RepoIds : RLock(2, r, "Repack")
    \/ \E r \in RepoIds, op \in ReadOps : RLock(3, r, op)
    \/ \E p \in {2, 3}, err \in GitErrors : RUnlock(p, err)

SpecLocks == InitMirrors /\ [][NextLocks]_vars

\* the goroutines that run the git command of Clone, Fetch or Repack on r
GitWriters(r) ==
    {p \in Procs : /\ procs[p].repo = r
                   /\ procs[p].pc \in {"executeClone", "git fetch", Running("Repack")}}

\* the goroutines that run a read operation on r
GitReaders(r) ==
    {p \in Procs : procs[p].repo = r /\ \E op \in ReadOps : procs[p].pc = Running(op)}

\* C31: no read operation on a Repository runs while Clone, Fetch or Repack runs its
\* git command on it
C31_WritersExcludeReaders ==
    \A r \in RepoIds : GitWriters(r) # {} => GitReaders(r) = {}

----------------------------------------------------------------------------
(* The disk cache under Create, Delete, the sweeper and a reopened metadata
   database *)

\* the namespaces and keys of the entries, their time to live and size
DiskNamespaces == {<<>>, <<"g">>}
DiskKeys == {k \in [1..KeyLen -> KeyBytes] : k[1] = "a"}
DiskTTLs == {1, 3}
DiskSizes == {1, 2}

\* the sweeps of a run
MaxSweeps == 2

\* the clock advances unless a sweep is due: the sweeper is never late
DiskTick ==
    /\ now < diskStore.nextSweep
    /\ diskStore.nextSweep <= MaxSweeps * EvictInterval
    /\ now' = now + 1
    /\ UNCHANGED <<cacheVars, gitVars, diskVars, pathVars>>

NextDisk ==
    \/ DiskTick
    \/ \E namespace \in DiskNamespaces, key \in DiskKeys, ttl \in DiskTTLs,
          size \in DiskSizes : DiskCreate(namespace, key, ttl, size)
    \/ \E namespace \in DiskNamespaces, key \in DiskKeys : DiskDelete(namespace, key)
    \/ DiskSweep
    \/ MetaReopen

SpecDisk == Init /\ [][NextDisk]_vars

\* the entries of the store: the files that have metadata
DiskEntries ==
    {f \in DOMAIN diskStore.files : getTTL(metaDB, f[1], f[2]).err = NilErr}

\* C27: within one EvictInterval after the expiry time of an entry has passed its
\* file and its metadata are gone and the size no longer counts it, and an entry
\* that has not expired keeps its file and its metadata when the sweeper runs
C27_ExpiredSweptWithinInterval ==
    /\ [](\A f \in DOMAIN diskStore.files :
             getTTL(metaDB, f[1], f[2]).err = NilErr
                 => now - getTTL(metaDB, f[1], f[2]).expiresAt <= EvictInterval)
    /\ [](\A k \in DOMAIN metaDB.ttl : now - metaDB.ttl[k] <= EvictInterval)
    /\ [](diskStore.size = SumOf(diskStore.files, DOMAIN diskStore.files))
    /\ [][diskStore'.nextSweep # diskStore.nextSweep
              => \A f \in DiskEntries :
                     getTTL(metaDB, f[1], f[2]).expiresAt > now
                         => DiskOpenResult(f[1], f[2])' = NilErr]_vars

\* C39: every entry that was stored with set and not deleted since is reported by
\* walk exactly once, with its key and its namespace
C39_WalkReportsEveryEntry ==
    \A f \in DiskEntries :
        Cardinality({k \in DOMAIN metaDB.ttl :
                        \E e \in walkKey(metaDB, k) :
                            e.namespace = f[1] /\ e.key = f[2]}) = 1

\* C29: ListNamespaces is the set of the non-empty namespaces that hold an entry
C29_ListNamespacesExact ==
    DiskListNamespaces = {f[1] : f \in DOMAIN diskStore.files} \ {<<>>}

----------------------------------------------------------------------------
(* ExtractRepoPath on the paths of up to MaxPathLen parts *)

RECURSIVE PathsOfLen(_)
PathsOfLen(n) ==
    IF n = 0 THEN {<<>>}
    ELSE {Append(path, part) : path \in PathsOfLen(n - 1), part \in PathParts}

Paths == UNION {PathsOfLen(n) : n \in 0..MaxPathLen}

NextPath == \E path \in Paths : ExtractRepoPathCall(path)

SpecPath == Init /\ [][NextPath]_vars

\* C30: what ExtractRepoPath returns ends with none of the four suffixes
C30_NoSuffixLeft ==
    \A i \in DOMAIN GitSuffixes : ~HasSuffix(repoPath, GitSuffixes[i])

====
